---- MODULE Spec2Model ----
(***************************************************************************)
(* Model of pytmx/mason_original.py: the event-driven graph builder        *)
(* (slurp), the Token node types with their attribute schemas and add_*    *)
(* combination rules, and the tile-data decode pipeline (unpack,           *)
(* unroll_layer_data, decode_gid, rowify).                                 *)
(*                                                                         *)
(* Python values are tagged records [t, v]; node objects live in the       *)
(* sequence `nodes` and are referred to by their index (0 is None).        *)
(* Text that the code takes apart character by character (the content of   *)
(* a data node) is a sequence of one-character strings; attribute values   *)
(* that are only cast as a whole are TLA+ strings.                         *)
(***************************************************************************)
EXTENDS Integers, Sequences, FiniteSets, TLC

(* ---------------------------------------------------------------------- *)
(* Bounds of the model                                                     *)
(* ---------------------------------------------------------------------- *)
\* number of events the event source delivers at most
MaxEvents == 8
\* number of simultaneously open elements the event source produces at most
MaxDepth == 4
\* length of the byte buffers unroll_layer_data is applied to at most
MaxBytes == 5

(* ---------------------------------------------------------------------- *)
(* Python values                                                           *)
(* ---------------------------------------------------------------------- *)
PyNone == [t |-> "None", v |-> 0]
PyInt(i) == [t |-> "int", v |-> i]
PyStr(s) == [t |-> "str", v |-> s]
PyBool(b) == [t |-> "bool", v |-> b]
\* floats of the model are the integral ones; v is the integral value
PyFloat(i) == [t |-> "float", v |-> i]
\* a reference to a node object
PyRef(n) == [t |-> "ref", v |-> n]
\* the None object of the driver's stack and of context["parent"]
NoneRef == 0

\* exceptions: kind is the exception class, args its argument tuple
NoErr == [kind |-> "none", args |-> <<>>]
Exc(kind, args) == [kind |-> kind, args |-> args]
IsErr(e) == e.kind # "none"

EmptyMap == [k \in {} |-> PyNone]

(* ---------------------------------------------------------------------- *)
(* GID flag constants                                                      *)
(* ---------------------------------------------------------------------- *)
\* An unsigned 32-bit value is the pair of its most significant byte (hi) and
\* its low 24 bits (lo): hi * 2^24 + lo.
U32(hi, lo) == [hi |-> hi, lo |-> lo]
\* 1 << 31, 1 << 30, 1 << 29
GID_TRANS_FLIPX == U32(128, 0)
GID_TRANS_FLIPY == U32(64, 0)
GID_TRANS_ROT == U32(32, 0)

(* ---------------------------------------------------------------------- *)
(* Node type registry: the module globals whose name ends in "Token".      *)
(* Registry is the set of tag names t for which t + "Token" is defined.    *)
(* ---------------------------------------------------------------------- *)
Registry ==
    { "", "Animation", "Chunk", "Data", "Ellipse", "Frame", "Grid", "Group",
      "Imagelayer", "Image", "Layer", "Map", "Objectgroup", "Object", "Point",
      "Polygon", "Polyline", "Properties", "Property", "Template", "Terrain",
      "Terraintypes", "Text", "TileOffset", "TilesetSource", "Tileset", "Tile" }

\* the three shared Attr declarations
Color == <<"color", "str", PyNone>>
Opacity == <<"opacity", "float", PyFloat(1)>>
Visible == <<"visible", "bool", PyBool(TRUE)>>

\* the `attributes` class attribute of each node type: <<name, caster, default>>
\* (TerrainToken and TextToken declare `Attributes`, which Token.__init__ never
\* reads, so their schema is the base class's empty one)
Attributes(cls) ==
    CASE cls = "Chunk" ->
           << <<"x", "int", PyNone>>, <<"y", "int", PyNone>>,
              <<"width", "int", PyNone>>, <<"height", "int", PyNone>> >>
      [] cls = "Data" ->
           << <<"encoding", "str", PyNone>>, <<"compression", "str", PyNone>> >>
      [] cls = "Frame" ->
           << <<"tileid", "int", PyNone>>, <<"duration", "int", PyNone>> >>
      [] cls \in {"Grid", "Group"} ->
           << <<"name", "str", PyNone>>, <<"offsetx", "int", PyInt(0)>>,
              <<"offsety", "int", PyInt(0)>>, Visible, Opacity >>
      [] cls = "Imagelayer" ->
           << <<"name", "str", PyStr("ImageLayer")>>, <<"offsetx", "int", PyInt(0)>>,
              <<"offsety", "int", PyInt(0)>>, Visible, Opacity >>
      [] cls = "Image" ->
           << <<"format", "str", PyNone>>, <<"source", "str", PyNone>>,
              <<"trans", "str", PyNone>>, <<"width", "int", PyNone>>,
              <<"height", "int", PyNone>> >>
      [] cls = "Layer" ->
           << <<"name", "str", PyStr("TileLayer")>>, <<"width", "int", PyNone>>,
              <<"height", "int", PyNone>>, <<"offsetx", "int", PyInt(0)>>,
              <<"offsety", "int", PyInt(0)>>, Visible, Opacity >>
      [] cls = "Map" ->
           << <<"version", "str", PyNone>>, <<"tiledversion", "str", PyNone>>,
              <<"orientation", "str", PyStr("orthogonal")>>,
              <<"renderorder", "str", PyStr("right-down")>>,
              <<"compressionlevel", "int", PyInt(-1)>>,
              <<"width", "int", PyNone>>, <<"height", "int", PyNone>>,
              <<"tilewidth", "int", PyNone>>, <<"tileheight", "int", PyNone>>,
              <<"hexsidelength", "float", PyNone>>,
              <<"staggeraxis", "str", PyNone>>, <<"staggerindex", "str", PyNone>>,
              <<"backgroundcolor", "str", PyNone>>,
              <<"nextlayerid", "int", PyNone>>, <<"nextobjectid", "int", PyNone>>,
              <<"infinite", "bool", PyBool(FALSE)>> >>
      [] cls = "Objectgroup" ->
           << <<"name", "str", PyNone>>, <<"x", "float", PyInt(0)>>,
              <<"y", "float", PyInt(0)>>, <<"width", "int", PyNone>>,
              <<"height", "int", PyNone>>, Color, Visible, Opacity >>
      [] cls = "Object" ->
           << <<"name", "str", PyNone>>, <<"id", "int", PyNone>>,
              <<"type", "str", PyNone>>, <<"x", "float", PyNone>>,
              <<"y", "float", PyNone>>, <<"width", "float", PyNone>>,
              <<"height", "float", PyNone>>, <<"rotation", "float", PyInt(0)>>,
              <<"gid", "int", PyNone>>, <<"template", "str", PyNone>>,
              Visible, Opacity >>
      [] cls \in {"Polygon", "Polyline"} ->
           << <<"points", "read_points", PyNone>> >>
      [] cls = "Property" ->
           << <<"type", "noop", PyNone>>, <<"name", "noop", PyNone>>,
              <<"value", "noop", PyNone>> >>
      [] cls = "TileOffset" ->
           << <<"x", "int", PyNone>>, <<"y", "int", PyNone>> >>
      [] cls = "Tileset" ->
           << <<"firstgid", "int", PyNone>>, <<"source", "str", PyNone>>,
              <<"name", "str", PyNone>>, <<"tilewidth", "int", PyNone>>,
              <<"tileheight", "int", PyNone>>, <<"spacing", "int", PyInt(0)>>,
              <<"margin", "int", PyInt(0)>>, <<"tilecount", "int", PyNone>>,
              <<"columns", "int", PyNone>>, <<"objectalignment", "str", PyNone>> >>
      [] cls = "Tile" ->
           << <<"id", "int", PyNone>>, <<"gid", "int", PyNone>>,
              <<"type", "str", PyNone>>, <<"terrain", "str", PyNone>>,
              <<"probability", "float", PyNone>> >>
      [] OTHER -> << >>


\* self.__class__.__name__ of a node of type cls
ClassName(cls) == cls \o "Token"

PyList(s) == [t |-> "list", v |-> s]
PyDict(d) == [t |-> "dict", v |-> d]
\* a tuple of array("H") rows
PyRows(r) == [t |-> "rows", v |-> r]

\* instance attributes set by the __init__ of each node type (besides attrib,
\* properties and attrib_types); MapToken also gets one per childtypes entry
InitFields(cls) ==
    CASE cls = "Animation" -> [frames |-> PyList(<<>>)]
      [] cls = "Data" -> [tiles |-> PyList(<<>>), chunks |-> PyList(<<>>), data |-> PyNone]
      [] cls = "Imagelayer" -> [image |-> PyNone]
      [] cls = "Layer" -> [data |-> PyNone]
      [] cls = "Map" -> [tilesets |-> PyList(<<>>), layers |-> PyList(<<>>),
                         objectgroups |-> PyList(<<>>), group |-> PyList(<<>>),
                         editorsettings |-> PyDict(EmptyMap)]
      [] cls = "Objectgroup" -> [objects |-> PyList(<<>>)]
      [] cls = "Object" -> [points |-> PyList(<<>>), ellipse |-> PyBool(FALSE)]
      [] cls = "Properties" -> [dictionary |-> PyDict(EmptyMap)]
      [] cls = "Template" -> [tilesets |-> PyList(<<>>), objects |-> PyList(<<>>)]
      [] cls = "Terraintypes" -> [terrains |-> PyList(<<>>)]
      [] cls = "Tileset" -> [image |-> PyNone, tiles |-> PyList(<<>>)]
      [] cls = "Tile" -> [image |-> PyNone]
      [] OTHER -> EmptyMap

\* Token.__init__: a fresh node of type cls
NewToken(cls) ==
    [cls |-> cls, attrib |-> EmptyMap, properties |-> PyDict(EmptyMap),
     fields |-> InitFields(cls)]

\* obj.name: the instance attribute if there is one, else Token.__getattr__,
\* which looks the name up in attrib and raises AttributeError when absent
GetAttr(node, name) ==
    IF name \in DOMAIN node.fields THEN [err |-> NoErr, val |-> node.fields[name]]
    ELSE IF name = "properties" THEN [err |-> NoErr, val |-> node.properties]
    ELSE IF name \in DOMAIN node.attrib THEN [err |-> NoErr, val |-> node.attrib[name]]
    ELSE [err |-> Exc("AttributeError", <<>>), val |-> PyNone]

(* ---------------------------------------------------------------------- *)
(* Geometry: read_points and move_points                                   *)
(* ---------------------------------------------------------------------- *)
\* a str taken apart character by character: a sequence of 1-char strings
PyText(cs) == [t |-> "text", v |-> cs]
\* a tuple of points, each point the tuple of its (integral) float components
PyPoints(ps) == [t |-> "points", v |-> ps]

Whitespace == {" ", "\n", "\t", "\r"}

\* str.split(): the pieces between runs of whitespace, none of them empty
RECURSIVE SplitWords(_, _, _)
SplitWords(cs, i, cur) ==
    LET piece == IF cur = << >> THEN << >> ELSE << cur >>
    IN IF i > Len(cs) THEN piece
       ELSE IF cs[i] \in Whitespace THEN piece \o SplitWords(cs, i + 1, << >>)
       ELSE SplitWords(cs, i + 1, Append(cur, cs[i]))

\* i.split(","): the pieces between commas, empty ones included
RECURSIVE SplitCoords(_, _, _)
SplitCoords(cs, i, cur) ==
    IF i > Len(cs) THEN << cur >>
    ELSE IF cs[i] = "," THEN << cur >> \o SplitCoords(cs, i + 1, << >>)
    ELSE SplitCoords(cs, i + 1, Append(cur, cs[i]))

DecDigits == << "0", "1", "2", "3", "4", "5", "6", "7", "8", "9" >>
IsDecDigit(c) == \E d \in 1..10 : DecDigits[d] = c

RECURSIVE NatOf(_)
NatOf(ds) ==
    IF ds = << >> THEN 0
    ELSE 10 * NatOf(SubSeq(ds, 1, Len(ds) - 1))
         + (CHOOSE d \in 0..9 : DecDigits[d + 1] = ds[Len(ds)])

\* float(s) for the literals of the model: digits with an optional minus sign
\* give the integral float; the empty string and a literal with a letter
\* raise ValueError (no input of the model has a fraction, an exponent or
\* inner whitespace)
FloatOf(cs) ==
    LET neg == cs # << >> /\ cs[1] = "-"
        ds == IF neg THEN Tail(cs) ELSE cs
    IN IF ds = << >> \/ \E k \in 1..Len(ds) : ~IsDecDigit(ds[k])
       THEN [err |-> Exc("ValueError", << >>), val |-> 0]
       ELSE [err |-> NoErr, val |-> IF neg THEN 0 - NatOf(ds) ELSE NatOf(ds)]

\* read_points(text): one point per whitespace-separated word, one float per
\* comma-separated component of the word; the number of components is not
\* checked
read_points(text) ==
    IF text.t # "text" THEN [err |-> Exc("AttributeError", << "split" >>), val |-> PyNone]
    ELSE LET words == SplitWords(text.v, 1, << >>)
             comps(k) == SplitCoords(words[k], 1, << >>)
         IN IF \E k \in 1..Len(words) : \E j \in 1..Len(comps(k)) :
                   IsErr(FloatOf(comps(k)[j]).err)
            THEN [err |-> Exc("ValueError", << >>), val |-> PyNone]
            ELSE [err |-> NoErr,
                  val |-> PyPoints([k \in 1..Len(words) |->
                              [j \in 1..Len(comps(k)) |-> FloatOf(comps(k)[j]).val]])]

\* move_points that returns the points where they are
move_points_NoShift(points, x, y) ==
    IF points.t # "points" THEN [err |-> Exc("TypeError", << >>), val |-> PyNone]
    ELSE [err |-> NoErr, val |-> points]

\* move_points(points, x, y): (i[0] + x, i[1] + y) for every point i, in
\* order; a component beyond the second is dropped.  Iterating None, adding
\* None to a float and i[1] of a one-component point raise.
move_points(points, x, y) ==
    IF points.t # "points" THEN [err |-> Exc("TypeError", << >>), val |-> PyNone]
    ELSE IF points.v = << >> THEN [err |-> NoErr, val |-> PyPoints(<< >>)]
    ELSE IF x.t = "None" THEN [err |-> Exc("TypeError", << >>), val |-> PyNone]
    ELSE IF \E k \in 1..Len(points.v) : Len(points.v[k]) < 2
    THEN LET k == CHOOSE j \in 1..Len(points.v) :
                      /\ Len(points.v[j]) < 2
                      /\ \A j2 \in 1..(j - 1) : Len(points.v[j2]) >= 2
         IN IF k > 1 /\ y.t = "None"
            THEN [err |-> Exc("TypeError", << >>), val |-> PyNone]
            ELSE [err |-> Exc("IndexError", << >>), val |-> PyNone]
    ELSE IF y.t = "None" THEN [err |-> Exc("TypeError", << >>), val |-> PyNone]
    ELSE [err |-> NoErr,
          val |-> PyPoints([k \in 1..Len(points.v) |->
                      << points.v[k][1] + x.v, points.v[k][2] + y.v >>])]

(* ---------------------------------------------------------------------- *)
(* Casters of the attribute schema                                         *)
(* ---------------------------------------------------------------------- *)
\* the decimal literals that occur as raw attribute values
IntLiterals ==
    ("0" :> 0) @@ ("1" :> 1) @@ ("2" :> 2) @@ ("3" :> 3) @@ ("5" :> 5) @@
    ("10" :> 10) @@ ("-1" :> -1) @@ ("70000" :> 70000)

\* cls(value) for the caster named c; value is not None
Cast(c, val) ==
    CASE c = "int" /\ val.t = "int" -> [err |-> NoErr, val |-> val]
      [] c = "int" /\ val.t = "bool" -> [err |-> NoErr, val |-> PyInt(IF val.v THEN 1 ELSE 0)]
      [] c = "int" /\ val.t = "float" -> [err |-> NoErr, val |-> PyInt(val.v)]
      [] c = "int" /\ val.t = "str" ->
           IF val.v \in DOMAIN IntLiterals
           THEN [err |-> NoErr, val |-> PyInt(IntLiterals[val.v])]
           ELSE [err |-> Exc("ValueError", <<val.v>>), val |-> val]
      [] c = "float" /\ val.t = "float" -> [err |-> NoErr, val |-> val]
      [] c = "float" /\ val.t = "int" -> [err |-> NoErr, val |-> PyFloat(val.v)]
      [] c = "float" /\ val.t = "bool" -> [err |-> NoErr, val |-> PyFloat(IF val.v THEN 1 ELSE 0)]
      [] c = "float" /\ val.t = "str" ->
           IF val.v \in DOMAIN IntLiterals
           THEN [err |-> NoErr, val |-> PyFloat(IntLiterals[val.v])]
           ELSE [err |-> Exc("ValueError", <<val.v>>), val |-> val]
      [] c = "bool" /\ val.t = "bool" -> [err |-> NoErr, val |-> val]
      [] c = "bool" /\ val.t = "str" -> [err |-> NoErr, val |-> PyBool(val.v # "")]
      [] c = "bool" /\ val.t \in {"int", "float"} -> [err |-> NoErr, val |-> PyBool(val.v # 0)]
      [] c = "str" /\ val.t = "str" -> [err |-> NoErr, val |-> val]
      [] c = "noop" -> [err |-> NoErr, val |-> val]
      [] c = "read_points" -> read_points(val)

\* first loop of Token.start: the raw value of every declared attribute, or
\* its default; keys of init that the schema does not declare are not copied
RawAttrib(schema, init) ==
    [k \in {schema[i][1] : i \in 1..Len(schema)} |->
        IF k \in DOMAIN init THEN init[k]
        ELSE LET i == CHOOSE j \in 1..Len(schema) :
                          /\ schema[j][1] = k
                          /\ \A j2 \in (j+1)..Len(schema) : schema[j2][1] # k
             IN schema[i][3]]

\* the caster of attribute k (attrib_types[k].cls)
CasterOf(schema, k) ==
    LET i == CHOOSE j \in 1..Len(schema) :
                 /\ schema[j][1] = k
                 /\ \A j2 \in (j+1)..Len(schema) : schema[j2][1] # k
    IN schema[i][2]

\* second loop of Token.start from position i on: cast every value that is
\* not None, in schema order; the first failing cast raises and leaves the
\* remaining values uncast
RECURSIVE CastLoop(_, _, _)
CastLoop(schema, attrib, i) ==
    IF i > Len(schema) THEN [err |-> NoErr, attrib |-> attrib]
    ELSE LET k == schema[i][1]
         IN IF attrib[k].t = "None" THEN CastLoop(schema, attrib, i + 1)
            ELSE LET r == Cast(CasterOf(schema, k), attrib[k])
                 IN IF IsErr(r.err) THEN [err |-> r.err, attrib |-> attrib]
                    ELSE CastLoop(schema, [attrib EXCEPT ![k] = r.val], i + 1)

\* Token.start(init, context) on a node: the node afterwards and the error
TokenStart(node, init) ==
    LET schema == Attributes(node.cls)
        r == CastLoop(schema, RawAttrib(schema, init), 1)
    IN [err |-> r.err, node |-> [node EXCEPT !.attrib = r.attrib]]

\* tiled_property_type: the caster of each property type name
tiled_property_type ==
    [n \in {"string", "int", "float", "bool", "color", "file"} |->
        CASE n = "int" -> "int"
          [] n = "float" -> "float"
          [] n = "bool" -> "bool"
          [] OTHER -> "str"]

\* PropertyToken.start: Token.start, then the value is cast again by the
\* caster of init["type"].  A KeyError of the try block (no type given, a type
\* name that is no key of tiled_property_type, no value given) leads to the
\* handler, whose own init["value"] raises KeyError when no value was given.
PropertyTokenStart(node, init) ==
    LET base == TokenStart(node, init)
        store(v) == [err |-> NoErr, node |-> [base.node EXCEPT !.attrib["value"] = v]]
        handler == IF "value" \in DOMAIN init THEN store(init["value"])
                   ELSE [err |-> Exc("KeyError", << "value" >>), node |-> base.node]
    IN IF IsErr(base.err) THEN base
       ELSE IF "type" \notin DOMAIN init THEN handler
       ELSE IF init["type"].t # "str" \/ init["type"].v \notin DOMAIN tiled_property_type
       THEN handler
       ELSE IF "value" \notin DOMAIN init THEN handler
       ELSE LET r == Cast(tiled_property_type[init["type"].v], init["value"])
            IN IF IsErr(r.err) THEN [err |-> r.err, node |-> base.node]
               ELSE store(r.val)

\* token.start(init, context) dispatched on the node's type
NodeStart(node, init) ==
    IF node.cls = "Property" THEN PropertyTokenStart(node, init)
    ELSE TokenStart(node, init)

\* get_processor that falls back to the base Token for an unknown feature
get_processor_Lenient(feature) ==
    [err |-> NoErr, node |-> NewToken(IF feature \in Registry THEN feature ELSE "")]

\* get_processor(feature): the class for feature + "Token", else
\* UnsupportedFeature(feature)
get_processor(feature) ==
    IF feature \in Registry
    THEN [err |-> NoErr, node |-> NewToken(feature)]
    ELSE [err |-> Exc("UnsupportedFeature", <<feature>>), node |-> NewToken("")]


(* ---------------------------------------------------------------------- *)
(* Text, bytes and the tile-data decode pipeline                           *)
(* ---------------------------------------------------------------------- *)
PyBytes(bs) == [t |-> "bytes", v |-> bs]
\* the lazy map(int, tokens) object returned by decode_csv
PyMap(toks) == [t |-> "map", v |-> toks]

RECURSIVE LStrip(_)
LStrip(cs) == IF cs # <<>> /\ Head(cs) \in Whitespace THEN LStrip(Tail(cs)) ELSE cs

RECURSIVE RStrip(_)
RStrip(cs) ==
    IF cs # <<>> /\ cs[Len(cs)] \in Whitespace
    THEN RStrip(SubSeq(cs, 1, Len(cs) - 1)) ELSE cs

\* str.strip()
Strip(cs) == RStrip(LStrip(cs))

B64Alphabet ==
    << "A", "B", "C", "D", "E", "F", "G", "H", "I", "J", "K", "L", "M",
       "N", "O", "P", "Q", "R", "S", "T", "U", "V", "W", "X", "Y", "Z",
       "a", "b", "c", "d", "e", "f", "g", "h", "i", "j", "k", "l", "m",
       "n", "o", "p", "q", "r", "s", "t", "u", "v", "w", "x", "y", "z",
       "0", "1", "2", "3", "4", "5", "6", "7", "8", "9", "+", "/" >>

B64Value(c) == (CHOOSE i \in 1..64 : B64Alphabet[i] = c) - 1
IsB64Char(c) == \E i \in 1..64 : B64Alphabet[i] = c

\* base64.b64decode (binascii.a2b_base64, not strict): characters outside the
\* alphabet are skipped, padding that completes a quad ends the input, an
\* incomplete last quad raises binascii.Error
RECURSIVE B64Loop(_, _, _, _, _, _)
B64Loop(cs, i, quad, left, pads, out) ==
    IF i > Len(cs)
    THEN IF quad = 0 THEN [err |-> NoErr, val |-> PyBytes(out)]
         ELSE [err |-> Exc("binascii.Error", <<>>), val |-> PyNone]
    ELSE LET c == cs[i]
         IN IF c = "="
            THEN IF quad >= 2 /\ quad + pads + 1 >= 4
                 THEN [err |-> NoErr, val |-> PyBytes(out)]
                 ELSE B64Loop(cs, i + 1, quad, left,
                              IF quad >= 2 THEN pads + 1 ELSE pads, out)
            ELSE IF ~IsB64Char(c) THEN B64Loop(cs, i + 1, quad, left, pads, out)
            ELSE LET x == B64Value(c)
                 IN CASE quad = 0 -> B64Loop(cs, i + 1, 1, x, 0, out)
                      [] quad = 1 ->
                           B64Loop(cs, i + 1, 2, x % 16, 0,
                                   Append(out, left * 4 + x \div 16))
                      [] quad = 2 ->
                           B64Loop(cs, i + 1, 3, x % 4, 0,
                                   Append(out, left * 16 + x \div 4))
                      [] quad = 3 ->
                           B64Loop(cs, i + 1, 0, 0, 0, Append(out, left * 64 + x))

\* decode_base64(data): b64decode(data.strip())
decode_base64(data) ==
    IF data.t = "text" THEN B64Loop(Strip(data.v), 1, 0, 0, 0, <<>>)
    ELSE [err |-> Exc("TypeError", <<>>), val |-> PyNone]

\* str.split(",") of a string without whitespace
RECURSIVE SplitComma(_, _, _)
SplitComma(cs, i, cur) ==
    IF i > Len(cs) THEN << cur >>
    ELSE IF cs[i] = "," THEN << cur >> \o SplitComma(cs, i + 1, <<>>)
    ELSE SplitComma(cs, i + 1, Append(cur, cs[i]))

\* "".join(i.strip() for i in s): every whitespace character removed
DropWhitespace(cs) == SelectSeq(cs, LAMBDA c : c \notin Whitespace)

\* decode_csv(data): a lazy map of int over the comma-separated tokens; no
\* token is converted before the map object is iterated
decode_csv(data) ==
    IF data.t = "text"
    THEN [err |-> NoErr, val |-> PyMap(SplitComma(DropWhitespace(Strip(data.v)), 1, <<>>))]
    ELSE [err |-> Exc("AttributeError", <<>>), val |-> PyNone]

\* adler32 of a byte sequence, as its high and low 16 bits
RECURSIVE AdlerLoop(_, _, _, _)
AdlerLoop(bs, i, a, b) ==
    IF i > Len(bs) THEN [hi |-> b, lo |-> a]
    ELSE LET a2 == (a + bs[i]) % 65521
         IN AdlerLoop(bs, i + 1, a2, (b + a2) % 65521)

Adler32(bs) == AdlerLoop(bs, 1, 1, 0)

\* decompress_zlib(data): zlib.decompress of a stream whose deflate data is one
\* final stored block (BTYPE = 00); the compressed block types lie outside
\* the model and no input of the model uses them
decompress_zlib(data) ==
    LET d == data.v
        zerr == [err |-> Exc("zlib.error", <<>>), val |-> PyNone]
    IN IF data.t # "bytes" THEN [err |-> Exc("TypeError", <<>>), val |-> PyNone]
       ELSE IF Len(d) < 7 THEN zerr
       ELSE IF d[1] % 16 # 8 \/ d[1] \div 16 > 7 \/ (d[1] * 256 + d[2]) % 31 # 0
               \/ (d[2] \div 32) % 2 # 0 THEN zerr
       ELSE CASE (d[3] \div 2) % 4 = 3 -> zerr
              [] (d[3] \div 2) % 4 = 0 /\ d[3] % 2 = 1 ->
                   LET len == d[4] + 256 * d[5]
                       nlen == d[6] + 256 * d[7]
                       body == SubSeq(d, 8, 7 + len)
                   IN IF len + nlen # 65535 \/ Len(d) < 7 + len + 4 THEN zerr
                      ELSE IF [hi |-> d[8 + len] * 256 + d[9 + len],
                               lo |-> d[10 + len] * 256 + d[11 + len]] # Adler32(body)
                      THEN zerr
                      ELSE [err |-> NoErr, val |-> PyBytes(body)]

\* the transforms reachable as globals()[prefix + xform]
DecodeNames == {"base64", "csv", "gid"}
DecompressNames == {"zlib", "gzip"}

\* decode(data, xform) of get_data_xform("decode_", UnsupportedFeature):
\* val is None when xform is falsy
decode(data, xform) ==
    IF xform.t = "None" \/ xform.v = "" THEN [err |-> NoErr, val |-> PyNone]
    ELSE IF xform.v \notin DecodeNames
    THEN [err |-> Exc("UnsupportedFeature", <<xform.v>>), val |-> PyNone]
    ELSE CASE xform.v = "base64" -> decode_base64(data)
           [] xform.v = "csv" -> decode_csv(data)
           [] xform.v = "gid" -> [err |-> Exc("TypeError", <<>>), val |-> PyNone]

\* decompress(data, xform) of get_data_xform("decompress_", UnsupportedFeature);
\* gzip framing lies outside the model and no input of the model names it
decompress(data, xform) ==
    IF xform.t = "None" \/ xform.v = "" THEN [err |-> NoErr, val |-> PyNone]
    ELSE IF xform.v \notin DecompressNames
    THEN [err |-> Exc("UnsupportedFeature", <<xform.v>>), val |-> PyNone]
    ELSE CASE xform.v = "zlib" -> decompress_zlib(data)

\* unpack(data, encoding, compression): decode, then decompress; a step whose
\* result is None leaves the data as it was
unpack(data, encoding, compression) ==
    LET r1 == decode(data, encoding)
        d1 == IF r1.val.t # "None" THEN r1.val ELSE data
    IN IF IsErr(r1.err) THEN r1
       ELSE LET r2 == decompress(d1, compression)
            IN IF IsErr(r2.err) THEN r2
               ELSE [err |-> NoErr, val |-> IF r2.val.t # "None" THEN r2.val ELSE d1]

\* bit k of a byte
Bit(x, k) == (x \div (2 ^ k)) % 2

\* raw & mask == mask for a mask with lo = 0 and one bit set in hi
HasFlag(raw, mask) == (raw.hi \div mask.hi) % 2 = 1

\* decode_gid(raw_gid) for an unsigned 32-bit raw_gid: the TileFlags triple is
\* computed and dropped; the value returned is raw_gid with the three flag
\* bits cleared, an integer below 2^29
decode_gid(raw_gid) ==
    LET flags == << HasFlag(raw_gid, GID_TRANS_FLIPX),
                    HasFlag(raw_gid, GID_TRANS_FLIPY),
                    HasFlag(raw_gid, GID_TRANS_ROT) >>
        hi == raw_gid.hi
              - (IF flags[1] THEN GID_TRANS_FLIPX.hi ELSE 0)
              - (IF flags[2] THEN GID_TRANS_FLIPY.hi ELSE 0)
              - (IF flags[3] THEN GID_TRANS_ROT.hi ELSE 0)
    IN hi * 16777216 + raw_gid.lo

\* struct.Struct("<L").unpack_from(data, i)[0] with i counted from 0
UnpackLE(bs, i) ==
    U32(bs[i + 4], bs[i + 1] + bs[i + 2] * 256 + bs[i + 3] * 65536)

\* the offsets range(0, len(data), 4)
Every4(n) == { i \in 0..(n - 1) : i % 4 = 0 }

\* unroll_layer_data that unpacks the complete 4-byte groups only
unroll_layer_data_Truncating(data) ==
    CASE data.t = "map" -> [err |-> Exc("TypeError", <<>>), val |-> <<>>]
      [] data.t = "text" -> [err |-> Exc("TypeError", <<>>), val |-> <<>>]
      [] data.t = "bytes" ->
           [err |-> NoErr,
            val |-> [k \in 1..(Len(data.v) \div 4) |->
                        PyInt(decode_gid(UnpackLE(data.v, 4 * (k - 1))))]]

\* unroll_layer_data(data): len(data) fails on the map object, unpack_from
\* fails on a str and on an offset with fewer than 4 bytes after it
unroll_layer_data(data) ==
    CASE data.t = "map" -> [err |-> Exc("TypeError", <<>>), val |-> <<>>]
      [] data.t = "text" ->
           IF Every4(Len(data.v)) # {}
           THEN [err |-> Exc("TypeError", <<>>), val |-> <<>>]
           ELSE [err |-> NoErr, val |-> <<>>]
      [] data.t = "bytes" ->
           LET n == Len(data.v)
           IN IF \E i \in Every4(n) : i + 4 > n
              THEN [err |-> Exc("struct.error", <<>>), val |-> <<>>]
              ELSE [err |-> NoErr,
                    val |-> [k \in 1..(n \div 4) |->
                                PyInt(decode_gid(UnpackLE(data.v, 4 * (k - 1))))]]

\* gids[a:b] for 0 <= a <= b
Slice(gids, a, b) ==
    IF a >= Len(gids) THEN <<>>
    ELSE SubSeq(gids, a + 1, IF b < Len(gids) THEN b ELSE Len(gids))

\* array.array("H", items): every item an int in 0..65535
ArrayH(items) ==
    IF \E k \in 1..Len(items) : items[k].t # "int"
    THEN [err |-> Exc("TypeError", <<>>), val |-> <<>>]
    ELSE IF \E k \in 1..Len(items) : items[k].v < 0 \/ items[k].v > 65535
    THEN [err |-> Exc("OverflowError", <<>>), val |-> <<>>]
    ELSE [err |-> NoErr, val |-> [k \in 1..Len(items) |-> items[k].v]]

\* rowify(gids, w, h): h rows, row i the slice gids[i*w : i*w+w]; no length
\* of gids is checked. w and h are Python values (w, h >= 0 when ints).
rowify(gids, w, h) ==
    IF h.t # "int" THEN [err |-> Exc("TypeError", <<>>), val |-> PyNone]
    ELSE IF h.v > 0 /\ w.t # "int" THEN [err |-> Exc("TypeError", <<>>), val |-> PyNone]
    ELSE LET row(i) == ArrayH(Slice(gids, i * w.v, i * w.v + w.v))
         IN IF \E i \in 0..(h.v - 1) : IsErr(row(i).err)
            THEN LET i == CHOOSE j \in 0..(h.v - 1) :
                              /\ IsErr(row(j).err)
                              /\ \A j2 \in 0..(j - 1) : ~IsErr(row(j2).err)
                 IN [err |-> row(i).err, val |-> PyNone]
            ELSE [err |-> NoErr, val |-> PyRows([k \in 1..h.v |-> row(k - 1).val])]


(* ---------------------------------------------------------------------- *)
(* Combination rules: the add_<tag> methods of each node type              *)
(* ---------------------------------------------------------------------- *)
\* the tag names the event source of the model can deliver
TagUniverse == Registry \cup {"Bogus", "map", "Wangsets", "Tileoffset"}

\* str.lower() on the tag names
Lower(tag) ==
    CASE tag = "" -> ""
      [] tag = "Animation" -> "animation"
      [] tag = "Chunk" -> "chunk"
      [] tag = "Data" -> "data"
      [] tag = "Ellipse" -> "ellipse"
      [] tag = "Frame" -> "frame"
      [] tag = "Grid" -> "grid"
      [] tag = "Group" -> "group"
      [] tag = "Imagelayer" -> "imagelayer"
      [] tag = "Image" -> "image"
      [] tag = "Layer" -> "layer"
      [] tag \in {"Map", "map"} -> "map"
      [] tag = "Objectgroup" -> "objectgroup"
      [] tag = "Object" -> "object"
      [] tag = "Point" -> "point"
      [] tag = "Polygon" -> "polygon"
      [] tag = "Polyline" -> "polyline"
      [] tag = "Properties" -> "properties"
      [] tag = "Property" -> "property"
      [] tag = "Template" -> "template"
      [] tag = "Terrain" -> "terrain"
      [] tag = "Terraintypes" -> "terraintypes"
      [] tag = "Text" -> "text"
      [] tag \in {"TileOffset", "Tileoffset"} -> "tileoffset"
      [] tag = "TilesetSource" -> "tilesetsource"
      [] tag = "Tileset" -> "tileset"
      [] tag = "Tile" -> "tile"
      [] tag = "Bogus" -> "bogus"
      [] tag = "Wangsets" -> "wangsets"

LowerTags == { Lower(t) : t \in TagUniverse }

NoRule == [kind |-> "none", field |-> ""]
\* AppendTo that assigns the child in place of the list: self.f = item
AppendTo_Overwrite(f) == [kind |-> "assign", field |-> f]

\* self.f.append(item)
AppendTo(f) == [kind |-> "append", field |-> f]
AssignTo(f) == [kind |-> "assign", field |-> f]
Reject == [kind |-> "reject", field |-> ""]

\* getattr(self, "add_" + tag) for a node of type cls: what the method found
\* does, or NoRule when neither the class nor Token defines it
Rule(cls, tag) ==
    CASE tag = "properties" -> [kind |-> "properties", field |-> "properties"]
      [] cls = "Animation" /\ tag = "frame" -> AppendTo("frames")
      [] cls = "Chunk" /\ tag = "tile" -> Reject
      [] cls = "Data" /\ tag = "tile" -> AppendTo("tiles")
      [] cls = "Data" /\ tag = "chunk" -> AppendTo("chunks")
      [] cls = "Group" /\ tag \in {"layer", "objectgroup", "imagelayer", "group"} -> Reject
      [] cls = "Imagelayer" /\ tag = "image" -> AssignTo("image")
      [] cls = "Image" /\ tag = "data" -> Reject
      [] cls = "Layer" /\ tag = "data" -> AssignTo("data")
      [] cls = "Map" /\ tag = "tileset" -> AppendTo("tilesets")
      [] cls = "Map" /\ tag = "layer" -> AppendTo("layers")
      [] cls = "Map" /\ tag = "objectgroup" -> AppendTo("objectgroups")
      [] cls = "Map" /\ tag = "imagelayer" -> AppendTo("layers")
      [] cls = "Map" /\ tag = "group" -> Reject
      [] cls = "Objectgroup" /\ tag = "object" -> AppendTo("objects")
      [] cls = "Object" /\ tag = "ellipse" -> [kind |-> "ellipse", field |-> "ellipse"]
      [] cls = "Object" /\ tag = "polygon" -> [kind |-> "polygon", field |-> "points"]
      [] cls = "Object" /\ tag = "polyline" -> [kind |-> "polyline", field |-> "points"]
      [] cls = "Object" /\ tag \in {"text", "image"} -> Reject
      [] cls = "Properties" /\ tag = "property" -> [kind |-> "property", field |-> "dictionary"]
      [] cls = "Template" /\ tag = "terrain" -> AppendTo("terrains")
      [] cls = "Template" /\ tag = "object" -> AppendTo("objects")
      [] cls = "Terraintypes" /\ tag = "terrain" -> AppendTo("terrains")
      [] cls = "Tileset" /\ tag \in {"tileoffset", "grid", "terraintypes", "wangsets"} -> Reject
      [] cls = "Tileset" /\ tag = "image" -> AssignTo("image")
      [] cls = "Tileset" /\ tag = "tile" -> AppendTo("tiles")
      [] cls = "Tile" /\ tag = "image" -> AssignTo("image")
      [] cls = "Tile" /\ tag \in {"objectgroup", "animation"} -> Reject
      [] OTHER -> NoRule

\* combine that skips a child for which no add_ method exists
combine_Skip(ns, p, child, tag) ==
    LET rule == Rule(ns[p].cls, tag)
        self == ns[p]
    IN CASE rule.kind = "none" -> [err |-> NoErr, nodes |-> ns]
         [] rule.kind = "reject" ->
              [err |-> Exc("UnsupportedFeature", <<>>), nodes |-> ns]
         [] rule.kind = "append" ->
              [err |-> NoErr,
               nodes |-> [ns EXCEPT ![p].fields[rule.field] =
                              PyList(Append(self.fields[rule.field].v, child))]]
         [] rule.kind = "assign" ->
              [err |-> NoErr,
               nodes |-> [ns EXCEPT ![p].fields[rule.field] = PyRef(child)]]
         [] rule.kind = "properties" ->
              [err |-> NoErr,
               nodes |-> [ns EXCEPT ![p].properties = ns[child].fields.dictionary]]

\* combine in which `dictionary` is one object shared by all Properties
\* nodes (a class attribute in place of the one __init__ creates): a property
\* added to one of them is added to every one.  Covers the child kinds of a
\* properties document, which has no polygon and no polyline.
combine_SharedDictionary(ns, p, child, tag) ==
    LET rule == Rule(ns[p].cls, tag)
    IN CASE rule.kind = "none" ->
              [err |-> Exc("UnsupportedFeature", <<ClassName(ns[p].cls), tag>>), nodes |-> ns]
         [] rule.kind = "property" ->
              LET name == GetAttr(ns[child], "name")
                  value == GetAttr(ns[child], "value")
                  add(dict) == PyDict([k \in DOMAIN dict \cup {name.val} |->
                                          IF k = name.val THEN value.val ELSE dict[k]])
              IN IF IsErr(name.err) THEN [err |-> name.err, nodes |-> ns]
                 ELSE IF IsErr(value.err) THEN [err |-> value.err, nodes |-> ns]
                 ELSE [err |-> NoErr,
                       nodes |-> [n \in 1..Len(ns) |->
                                     IF ns[n].cls = "Properties"
                                     THEN [ns[n] EXCEPT !.fields.dictionary = add(@.v)]
                                     ELSE ns[n]]]
         [] OTHER -> combine_Skip(ns, p, child, tag)

\* Token.combine(child, tag) on node p of the heap ns: the heap afterwards and
\* the error. A missing add_ method raises UnsupportedFeature(class, tag)
\* before anything is touched; the method found runs outside the try.
combine(ns, p, child, tag) ==
    LET rule == Rule(ns[p].cls, tag)
        self == ns[p]
    IN CASE rule.kind = "none" ->
              [err |-> Exc("UnsupportedFeature", <<ClassName(self.cls), tag>>), nodes |-> ns]
         [] rule.kind = "reject" ->
              [err |-> Exc("UnsupportedFeature", <<>>), nodes |-> ns]
         [] rule.kind = "append" ->
              LET cur == GetAttr(self, rule.field)
              IN IF IsErr(cur.err) THEN [err |-> cur.err, nodes |-> ns]
                 ELSE [err |-> NoErr,
                       nodes |-> [ns EXCEPT ![p].fields[rule.field] =
                                      PyList(Append(cur.val.v, child))]]
         [] rule.kind = "assign" ->
              [err |-> NoErr,
               nodes |-> [ns EXCEPT ![p].fields[rule.field] = PyRef(child)]]
         [] rule.kind = "properties" ->
              LET d == GetAttr(ns[child], "dictionary")
              IN IF IsErr(d.err) THEN [err |-> d.err, nodes |-> ns]
                 ELSE [err |-> NoErr, nodes |-> [ns EXCEPT ![p].properties = d.val]]
         [] rule.kind = "ellipse" ->
              [err |-> NoErr, nodes |-> [ns EXCEPT ![p].fields.ellipse = PyBool(TRUE)]]
         [] rule.kind \in {"polygon", "polyline"} ->
              LET pts == GetAttr(ns[child], "points")
                  x == GetAttr(self, "x")
                  y == GetAttr(self, "y")
                  m == move_points(pts.val, x.val, y.val)
              IN IF IsErr(pts.err) THEN [err |-> pts.err, nodes |-> ns]
                 ELSE IF IsErr(x.err) THEN [err |-> x.err, nodes |-> ns]
                 ELSE IF IsErr(y.err) THEN [err |-> y.err, nodes |-> ns]
                 ELSE IF IsErr(m.err) THEN [err |-> m.err, nodes |-> ns]
                 ELSE [err |-> NoErr,
                       nodes |-> [ns EXCEPT
                           ![p].fields.points = m.val,
                           ![p].attrib = [k \in DOMAIN @ \cup {"closed"} |->
                                            IF k = "closed"
                                            THEN PyBool(rule.kind = "polygon")
                                            ELSE @[k]]]]
         [] rule.kind = "property" ->
              LET name == GetAttr(ns[child], "name")
                  value == GetAttr(ns[child], "value")
                  dict == self.fields.dictionary.v
              IN IF IsErr(name.err) THEN [err |-> name.err, nodes |-> ns]
                 ELSE IF IsErr(value.err) THEN [err |-> value.err, nodes |-> ns]
                 ELSE [err |-> NoErr,
                       nodes |-> [ns EXCEPT ![p].fields.dictionary =
                           PyDict([k \in DOMAIN dict \cup {name.val} |->
                                      IF k = name.val THEN value.val ELSE dict[k]])]]

(* ---------------------------------------------------------------------- *)
(* Finalization: the end(content, context) method of each node type        *)
(* ---------------------------------------------------------------------- *)
\* [i.gid for i in self.tiles]
TileGids(ns, tiles) == [k \in 1..Len(tiles) |-> GetAttr(ns[tiles[k]], "gid").val]

\* which branch of DataToken.end a content takes: "text" when content.strip()
\* is non-empty, else "tiles" when self.tiles is non-empty, else "none"
DataSource(content, tiles) ==
    IF Strip(content.v) # <<>> THEN "text"
    ELSE IF tiles # <<>> THEN "tiles"
    ELSE "none"

\* DataToken.end(content, context) on node id
DataTokenEnd(ns, id, content, context) ==
    LET self == ns[id]
        parent == context.parent
        fail(e) == [err |-> e, nodes |-> ns]
        store(r) == IF IsErr(r.err) THEN fail(r.err)
                    ELSE [err |-> NoErr, nodes |-> [ns EXCEPT ![id].fields.data = r.val]]
    IN IF parent = NoneRef THEN fail(Exc("AttributeError", <<"width">>))
       ELSE LET w == GetAttr(ns[parent], "width")
                h == GetAttr(ns[parent], "height")
            IN IF IsErr(w.err) THEN fail(w.err)
               ELSE IF IsErr(h.err) THEN fail(h.err)
               ELSE IF content.t = "None" THEN fail(Exc("AttributeError", <<"strip">>))
               ELSE CASE DataSource(content, self.fields.tiles.v) = "text" ->
                           LET d == unpack(content, self.attrib["encoding"],
                                           self.attrib["compression"])
                               u == unroll_layer_data(d.val)
                           IN IF IsErr(d.err) THEN fail(d.err)
                              ELSE IF IsErr(u.err) THEN fail(u.err)
                              ELSE store(rowify(u.val, w.val, h.val))
                      [] DataSource(content, self.fields.tiles.v) = "tiles" ->
                           store(rowify(TileGids(ns, self.fields.tiles.v), w.val, h.val))
                      [] DataSource(content, self.fields.tiles.v) = "none" ->
                           fail(Exc("Exception", <<"no layer data?">>))

\* ImageToken.end: the default loader's result (filename, rect, flags) with
\* rect = flags = None is kept in self.image
ImageTokenEnd(ns, id, content, context) ==
    [err |-> NoErr,
     nodes |-> [ns EXCEPT ![id].fields =
                    [f \in DOMAIN @ \cup {"image"} |->
                        IF f = "image" THEN [t |-> "loaded", v |-> ns[id].attrib["source"]]
                        ELSE @[f]]]]

\* TilesetToken.load_tiles: reads self.image.width/height and the geometry
\* attributes, builds the two ranges and calls the loader per region; the
\* images it loads are dropped, so a successful call changes nothing
load_tiles(ns, id) ==
    LET self == ns[id]
        a == self.attrib
        img == self.fields.image
        fail(e) == [err |-> e, nodes |-> ns]
    IN IF img.t # "ref" THEN fail(Exc("AttributeError", <<"width">>))
       ELSE LET width == GetAttr(ns[img.v], "width")
                height == GetAttr(ns[img.v], "height")
            IN IF IsErr(width.err) THEN fail(width.err)
               ELSE IF IsErr(height.err) THEN fail(height.err)
               ELSE IF \E x \in {height.val, width.val, a["tilewidth"], a["tileheight"],
                                 a["margin"], a["spacing"]} : x.t = "None"
               THEN fail(Exc("TypeError", <<>>))
               ELSE IF a["tileheight"].v + a["spacing"].v = 0
                       \/ a["tilewidth"].v + a["spacing"].v = 0
               THEN fail(Exc("ValueError", <<>>))
               ELSE IF a["firstgid"].t = "None" THEN fail(Exc("TypeError", <<>>))
               ELSE [err |-> NoErr, nodes |-> ns]

\* TilesetToken.end
TilesetTokenEnd(ns, id, content, context) ==
    IF ns[id].attrib["source"].t = "None" THEN load_tiles(ns, id)
    ELSE [err |-> NoErr, nodes |-> ns]

\* token.end(content, context) dispatched on the node's type; Token.end does
\* nothing, TilesetSourceToken.end reads the undefined name `source`
TokenEnd(ns, id, content, context) ==
    CASE ns[id].cls = "Data" -> DataTokenEnd(ns, id, content, context)
      [] ns[id].cls = "Image" -> ImageTokenEnd(ns, id, content, context)
      [] ns[id].cls = "Tileset" -> TilesetTokenEnd(ns, id, content, context)
      [] ns[id].cls = "TilesetSource" -> [err |-> Exc("NameError", <<"source">>), nodes |-> ns]
      [] OTHER -> [err |-> NoErr, nodes |-> ns]


(* ---------------------------------------------------------------------- *)
(* Inputs of the model: what the event source can deliver                  *)
(* ---------------------------------------------------------------------- *)
\* only whitespace
TextBlank ==
  PyText(
    << " ", "\n" >>)

\* base64 of the 4 bytes of the id 5
TextB64One ==
  PyText(
    << "B", "Q", "A", "A", "A", "A", "=", "=" >>)

\* base64 of the 8 bytes of the ids 5, 0, with whitespace around it
TextB64Two ==
  PyText(
    << " ", "B", "Q", "A", "A", "A", "A", "A", "A", "A", "A", "A", "=",
       "\n" >>)

\* base64 of the 12 bytes of the ids 1, 2, 3
TextB64Three ==
  PyText(
    << "A", "Q", "A", "A", "A", "A", "I", "A", "A", "A", "A", "D", "A",
       "A", "A", "A" >>)

\* base64 of 5 bytes: the id 5 and one byte more
TextB64Odd ==
  PyText(
    << "B", "Q", "A", "A", "A", "A", "E", "=" >>)

\* base64 of the raw gids 0x80000005, 0x60000001
TextB64Flags ==
  PyText(
    << "B", "Q", "A", "A", "g", "A", "E", "A", "A", "G", "A", "=" >>)

\* base64 of the ids 70000, 0
TextB64Big ==
  PyText(
    << "c", "B", "E", "B", "A", "A", "A", "A", "A", "A", "A", "=" >>)

\* base64 of the zlib stream (one stored block) of the ids 5, 0
TextZlibTwo ==
  PyText(
    << "e", "A", "E", "B", "C", "A", "D", "3", "/", "w", "U", "A", "A",
       "A", "A", "A", "A", "A", "A", "A", "A", "D", "A", "A", "B", "g",
       "=", "=" >>)

\* base64 of the zlib stream (one stored block) of 6 bytes
TextZlibOdd ==
  PyText(
    << "e", "A", "E", "B", "B", "g", "D", "5", "/", "w", "U", "A", "A",
       "A", "A", "B", "A", "g", "A", "o", "A", "A", "k", "=" >>)

\* the delimited integers 5, 0
TextCsvTwo ==
  PyText(
    << "5", ",", "0" >>)

\* the delimited integers 5, 0 with whitespace
TextCsvSpaced ==
  PyText(
    << "\n", "5", ",", " ", "0", "\n" >>)

\* base64 of the single byte 5
TextB64Byte ==
  PyText(
    << "B", "Q", "=", "=" >>)

\* base64 of 7 bytes: the id 5 and three bytes more
TextB64Seven ==
  PyText(
    << "B", "Q", "A", "A", "A", "A", "E", "A", "A", "A", "=", "=" >>)

\* the text of the end event of a data element
Contents ==
    { PyNone, TextBlank, TextB64One, TextB64Two, TextB64Three, TextB64Odd,
      TextB64Byte, TextB64Seven, TextB64Flags, TextB64Big, TextZlibTwo,
      TextZlibOdd, TextCsvTwo, TextCsvSpaced }

\* Two families of documents are explored.  The first (Spec) is free in its
\* structure: any tag of SourceTags may open anywhere, with one attribute
\* mapping per tag and two contents per data element.  The second
\* (SpecLayer) is a tile layer document, layer > data > tile*, with every
\* attribute mapping of LayerAttribs and every text of Contents.

\* the tags of the elements the event source delivers
SourceTags == {"Map", "Layer", "Data", "Tile", "Bogus"}

\* the raw attribute mappings an element of each tag can carry
StartAttribs(tag) ==
    CASE tag \in {"Map", "Layer"} -> { [width |-> PyStr("2"), height |-> PyStr("1")] }
      [] tag = "Tile" -> { [gid |-> PyStr("5")] }
      [] OTHER -> { EmptyMap }

\* the text an end event of each tag can carry
EndTexts(tag) == IF tag = "Data" THEN { PyNone, TextBlank } ELSE { PyNone }

\* the tags of the tile layer documents
LayerTags == {"Layer", "Data", "Tile"}

\* the tags an element of a tile layer document can open below the open
\* elements `open`
LayerChildTags(open) ==
    IF open = << >> THEN {"Layer"}
    ELSE IF open[Len(open)] = "Layer" THEN {"Data"}
    ELSE IF open[Len(open)] = "Data" THEN {"Tile"}
    ELSE { }

\* the raw attribute mappings of the elements of a tile layer document
LayerAttribs(tag) ==
    CASE tag = "Layer" ->
           { [width |-> PyStr("2"), height |-> PyStr("1")],
             [width |-> PyStr("1"), height |-> PyStr("2")],
             [name |-> PyStr("ground")] }
      [] tag = "Data" ->
           { EmptyMap,
             [encoding |-> PyStr("base64")],
             [encoding |-> PyStr("base64"), compression |-> PyStr("zlib")],
             [encoding |-> PyStr("base64"), compression |-> PyStr("lzma")],
             [encoding |-> PyStr("csv")],
             [encoding |-> PyStr("csv"), compression |-> PyStr("zlib")],
             [encoding |-> PyStr("hex")] }
      [] tag = "Tile" ->
           { [gid |-> PyStr("5")], [gid |-> PyStr("0")], [id |-> PyStr("1")] }

\* the text an end event of a tile layer document can carry
LayerTexts(tag) == IF tag = "Data" THEN Contents ELSE { PyNone }

(* ---------------------------------------------------------------------- *)
(* The driver slurp                                                        *)
(* ---------------------------------------------------------------------- *)
VARIABLES
    stack,      \* the deque of slurp: None at the bottom, then open nodes
    token,      \* the local variable token of slurp
    context,    \* the shared context dict
    nodes,      \* the heap: every Token object constructed, by index
    pc,         \* "running", "done" (slurp returned) or "failed" (it raised)
    error,      \* the exception that ended slurp, or NoErr
    result,     \* the token whose as_object() slurp prints at the end
    srcOpen,    \* event source: tags of the elements started and not ended
    srcCount,   \* event source: number of events delivered
    wellNested, \* the events delivered so far are those of one document tree
    lastEvent,  \* the event slurp processed last
    calls,      \* the calls slurp made while processing it, in order
    log,        \* per node, the lifecycle steps it went through, in order
    applied,    \* the function applied on its own ("" before the call)
    input,      \* the arguments it is applied to
    output,     \* what it returned or raised
    active,     \* two parses: which of them the variables above belong to
    peer,       \* two parses: the local variables of the other one
    owner,      \* two parses: per node, the parse that constructed it
    solo        \* two parses: per parse, the same events processed alone

\* the variables of one run of slurp
slurpVars == << stack, token, context, nodes, pc, error, result, srcOpen,
                srcCount, wellNested, lastEvent, calls, log >>
\* the variables of a function applied on its own
callVars == << applied, input, output >>
\* the variables of two interleaved parses
twoVars == << active, peer, owner, solo >>

vars == << stack, token, context, nodes, pc, error, result, srcOpen, srcCount,
           wellNested, lastEvent, calls, log, applied, input, output, active,
           peer, owner, solo >>

Call(fn, self, arg, tag) == [fn |-> fn, self |-> self, arg |-> arg, tag |-> tag]

\* the local variables of slurp before the first event
SlurpInit ==
    /\ stack = << NoneRef >>
    /\ token = NoneRef
    /\ context = [image_loader |-> "default_image_loader", path_root |-> "",
                  parent |-> NoneRef]
    /\ nodes = << >>
    /\ pc = "running"
    /\ error = NoErr
    /\ result = NoneRef
    /\ srcOpen = << >>
    /\ srcCount = 0
    /\ wellNested = TRUE
    /\ lastEvent = [kind |-> "none", tag |-> "", text |-> PyNone]
    /\ calls = << >>
    /\ log = << >>

\* no function is applied on its own
NoCall == applied = "" /\ input = PyNone /\ output = PyNone

\* there is one parse only
OneParse == active = 1 /\ peer = PyNone /\ owner = << >> /\ solo = << >>

Init == SlurpInit /\ NoCall /\ OneParse

\* stack.append(token)
Push(s, tok) == Append(s, tok)

\* Pop that reads the last entry and leaves it on the deque: token = stack[-1]
Pop_Peek(s) == [token |-> s[Len(s)], stack |-> s]

\* token = stack.pop(): the popped entry and the deque afterwards
Pop(s) == [token |-> s[Len(s)], stack |-> SubSeq(s, 1, Len(s) - 1)]

\* stack[-1]
Top(s) == s[Len(s)]

\* SetParent with the assignment left out
SetParent_Stale(ctx, parent) == ctx

\* context["parent"] = parent
SetParent(ctx, parent) == [ctx EXCEPT !.parent = parent]

\* IsTrue with every parent taken for false
IsTrue_Never(parent) == FALSE

\* `if parent:` -- a Token defines neither __bool__ nor __len__, so every
\* node is true and only None is false
IsTrue(parent) == parent # NoneRef

\* a start event: token = get_processor(tag); token.start(attrib, context);
\* stack.append(token)
SlurpStart(tag, attrib) ==
    /\ pc = "running"
    /\ srcCount < MaxEvents
    /\ Len(srcOpen) < MaxDepth
    /\ srcOpen # << >> \/ srcCount = 0
    /\ srcOpen' = Append(srcOpen, tag)
    /\ srcCount' = srcCount + 1
    /\ lastEvent' = [kind |-> "start", tag |-> tag, text |-> PyNone]
    /\ UNCHANGED << context, result, wellNested >>
    /\ LET p == get_processor(tag)
           id == Len(nodes) + 1
           s == NodeStart(p.node, attrib)
       IN IF IsErr(p.err)
          THEN /\ pc' = "failed"
               /\ error' = p.err
               /\ calls' = << Call("get_processor", NoneRef, NoneRef, tag) >>
               /\ UNCHANGED << stack, token, nodes, log >>
          ELSE /\ nodes' = Append(nodes, s.node)
               /\ token' = id
               /\ log' = Append(log, << "start" >>)
               /\ calls' = << Call("get_processor", NoneRef, NoneRef, tag),
                              Call("start", id, context.parent, "") >>
               /\ IF IsErr(s.err)
                  THEN /\ pc' = "failed"
                       /\ error' = s.err
                       /\ UNCHANGED stack
                  ELSE /\ stack' = Push(stack, id)
                       /\ UNCHANGED << pc, error >>

\* an end event: token = stack.pop(); parent = stack[-1];
\* context["parent"] = parent; token.end(text, context);
\* if parent: parent.combine(token, tag.lower())
SlurpEnd(tag, text) ==
    /\ pc = "running"
    /\ srcCount < MaxEvents
    /\ IF srcOpen = << >>
       THEN /\ wellNested' = FALSE
            /\ UNCHANGED srcOpen
       ELSE /\ tag = srcOpen[Len(srcOpen)]
            /\ srcOpen' = SubSeq(srcOpen, 1, Len(srcOpen) - 1)
            /\ UNCHANGED wellNested
    /\ srcCount' = srcCount + 1
    /\ lastEvent' = [kind |-> "end", tag |-> tag, text |-> text]
    /\ UNCHANGED result
    /\ LET popped == Pop(stack)
           tok == popped.token
       IN /\ token' = tok
          /\ stack' = popped.stack
          /\ IF popped.stack = << >>
             THEN /\ pc' = "failed"
                  /\ error' = Exc("IndexError", << >>)
                  /\ calls' = << >>
                  /\ UNCHANGED << context, nodes, log >>
             ELSE IF tok = NoneRef
             THEN /\ pc' = "failed"
                  /\ error' = Exc("AttributeError", << "end" >>)
                  /\ calls' = << >>
                  /\ UNCHANGED << context, nodes, log >>
             ELSE LET parent == Top(popped.stack)
                      ctx == SetParent(context, parent)
                      e == TokenEnd(nodes, tok, text, ctx)
                      c == combine(e.nodes, parent, tok, Lower(tag))
                      logE == [log EXCEPT ![tok] = Append(@, "end")]
                  IN /\ context' = ctx
                     /\ IF IsErr(e.err)
                        THEN /\ pc' = "failed"
                             /\ error' = e.err
                             /\ nodes' = e.nodes
                             /\ log' = logE
                             /\ calls' = << Call("end", tok, ctx.parent, "") >>
                        ELSE IF ~IsTrue(parent)
                        THEN /\ nodes' = e.nodes
                             /\ log' = logE
                             /\ calls' = << Call("end", tok, ctx.parent, "") >>
                             /\ UNCHANGED << pc, error >>
                        ELSE /\ calls' = << Call("end", tok, ctx.parent, ""),
                                            Call("combine", parent, tok, Lower(tag)) >>
                             /\ nodes' = c.nodes
                             /\ IF IsErr(c.err)
                                THEN /\ pc' = "failed"
                                     /\ error' = c.err
                                     /\ log' = logE
                                ELSE /\ log' = [logE EXCEPT
                                                  ![parent] = Append(@, "combine"),
                                                  ![tok] = Append(@, "folded")]
                                     /\ UNCHANGED << pc, error >>

\* SlurpExhausted with the node constructed last reported in place of token
SlurpExhausted_LastConstructed ==
    /\ pc = "running"
    /\ wellNested' = (wellNested /\ srcOpen = << >> /\ srcCount > 0)
    /\ lastEvent' = [kind |-> "exhausted", tag |-> "", text |-> PyNone]
    /\ calls' = << >>
    /\ IF token = NoneRef
       THEN /\ pc' = "failed"
            /\ error' = Exc("AttributeError", << "as_object" >>)
            /\ UNCHANGED result
       ELSE /\ pc' = "done"
            /\ result' = Len(nodes)
            /\ UNCHANGED error
    /\ UNCHANGED << stack, token, context, nodes, srcOpen, srcCount, log >>

\* the event source is exhausted: the loop ends and slurp prints
\* token.as_object(), which fails on None
SlurpExhausted ==
    /\ pc = "running"
    /\ wellNested' = (wellNested /\ srcOpen = << >> /\ srcCount > 0)
    /\ lastEvent' = [kind |-> "exhausted", tag |-> "", text |-> PyNone]
    /\ calls' = << >>
    /\ IF token = NoneRef
       THEN /\ pc' = "failed"
            /\ error' = Exc("AttributeError", << "as_object" >>)
            /\ UNCHANGED result
       ELSE /\ pc' = "done"
            /\ result' = token
            /\ UNCHANGED error
    /\ UNCHANGED << stack, token, context, nodes, srcOpen, srcCount, log >>

Next ==
    \/ /\ \E tag \in SourceTags : \E attrib \in StartAttribs(tag) : SlurpStart(tag, attrib)
       /\ UNCHANGED << callVars, twoVars >>
    \/ /\ \E tag \in SourceTags : \E text \in EndTexts(tag) : SlurpEnd(tag, text)
       /\ UNCHANGED << callVars, twoVars >>
    \/ /\ SlurpExhausted
       /\ UNCHANGED << callVars, twoVars >>

Spec == Init /\ [][Next]_vars

NextLayer ==
    \/ /\ \E tag \in LayerChildTags(srcOpen) : \E attrib \in LayerAttribs(tag) :
              SlurpStart(tag, attrib)
       /\ UNCHANGED << callVars, twoVars >>
    \/ /\ \E tag \in LayerTags : \E text \in LayerTexts(tag) : SlurpEnd(tag, text)
       /\ UNCHANGED << callVars, twoVars >>
    \/ /\ SlurpExhausted
       /\ UNCHANGED << callVars, twoVars >>

SpecLayer == Init /\ [][NextLayer]_vars


(* ---------------------------------------------------------------------- *)
(* Properties of the driver                                                *)
(* ---------------------------------------------------------------------- *)
Last(l) == l[Len(l)]

\* a step of the driver that processed one more event
EventStep == srcCount' = srcCount + 1

\* C1: when the events of one well-nested document, all of registered tags
\* and with no failing handler, have been consumed, the stack holds exactly
\* the sentinel and the node reported is the root: the node constructed by
\* the first start event, which is also the node finalized last.
C1_RootReported ==
    (pc = "done" /\ wellNested) =>
        /\ stack = << NoneRef >>
        /\ result = 1
        /\ token = 1
        /\ Last(log[1]) = "end"

\* a document with nested elements was parsed to its end
C1_Witness ==
    /\ pc = "done"
    /\ wellNested
    /\ Len(nodes) >= 3
    /\ result = 1
    /\ stack = << NoneRef >>

\* the lifecycle of one node, as the steps logged for it: start, then any
\* number of children combined into it, then end, then folded into the parent
LifecyclePrefix(l) ==
    /\ Len(l) >= 1
    /\ l[1] = "start"
    /\ \A i \in 2..Len(l) :
          \/ l[i] = "combine" /\ \A j \in 2..i : l[j] = "combine"
          \/ l[i] = "end" /\ \A j \in 2..(i - 1) : l[j] = "combine"
          \/ l[i] = "folded" /\ i = Len(l) /\ l[i - 1] = "end"

\* C2: every node is started exactly once, when its start event is
\* dispatched; children are combined into it only after its start and before
\* its own finalization; it is finalized exactly once, at its own end event;
\* and it is combined into its parent only after that, exactly once when the
\* document is complete -- never for the root.
C2_Lifecycle ==
    /\ Len(log) = Len(nodes)
    /\ \A n \in 1..Len(nodes) :
          /\ LifecyclePrefix(log[n])
          /\ (n = 1) => Last(log[n]) # "folded"
          /\ (pc = "done" /\ wellNested) =>
                Last(log[n]) = (IF n = 1 THEN "end" ELSE "folded")
    /\ (lastEvent.kind = "start" /\ Len(calls) = 2) =>
          /\ calls[2].fn = "start"
          /\ calls[2].self = Len(nodes)
          /\ token = Len(nodes)
          /\ log[token] = << "start" >>
    /\ (lastEvent.kind = "end" /\ token # NoneRef) =>
          \/ Last(log[token]) = "end"
          \/ Last(log[token]) = "folded" /\ Last(log[Top(stack)]) = "combine"

\* a complete document in which one node had two children combined into it
\* before its own end and was then folded into its parent
C2_Witness ==
    /\ pc = "done"
    /\ wellNested
    /\ \E n \in 1..Len(nodes) :
          log[n] = << "start", "combine", "combine", "end", "folded" >>

\* C3: on an end event the driver pops the top node, sets context["parent"]
\* to the new stack top before the popped node's end() runs, and afterwards
\* calls combine on that parent with the popped node exactly when the new top
\* is a node; with the sentinel on top (the root was popped) combine is not
\* called.
C3_EndEvent ==
    [][ (EventStep /\ lastEvent'.kind = "end" /\ Len(stack) >= 2) =>
          /\ token' = Top(stack)
          /\ stack' = SubSeq(stack, 1, Len(stack) - 1)
          /\ context'.parent = Top(stack')
          /\ Len(calls') >= 1
          /\ calls'[1] = Call("end", token', Top(stack'), "")
          /\ IF Top(stack') = NoneRef
             THEN Len(calls') = 1
             ELSE \/ /\ Len(calls') = 2
                     /\ calls'[2] = Call("combine", Top(stack'), token',
                                         Lower(lastEvent'.tag))
                  \/ /\ Len(calls') = 1
                     /\ pc' = "failed"
                     /\ error'.kind # "UnsupportedFeature" ]_vars

\* an end event of a nested node: end() ran under the new parent entry and
\* the node was combined into the node on top of the stack
C3_Witness ==
    /\ lastEvent.kind = "end"
    /\ pc = "running"
    /\ Len(stack) >= 2
    /\ calls = << Call("end", token, Top(stack), ""),
                  Call("combine", Top(stack), token, Lower(lastEvent.tag)) >>
    /\ context.parent = Top(stack)

\* C4: a start event whose tag is not registered fails the parse with
\* UnsupportedFeature(tag): no node is constructed or pushed, no result is
\* produced, and nothing is processed after it -- also when it is the first
\* event.
C4_UnknownTag ==
    /\ [][ (EventStep /\ lastEvent'.kind = "start" /\ lastEvent'.tag \notin Registry) =>
             /\ pc' = "failed"
             /\ error' = Exc("UnsupportedFeature", << lastEvent'.tag >>)
             /\ nodes' = nodes
             /\ stack' = stack
             /\ token' = token
             /\ result' = NoneRef ]_vars
    /\ [][ pc = "failed" => UNCHANGED vars ]_vars

\* the very first event carried an unknown tag
C4_Witness ==
    /\ pc = "failed"
    /\ lastEvent = [kind |-> "start", tag |-> "Bogus", text |-> PyNone]
    /\ error = Exc("UnsupportedFeature", << "Bogus" >>)
    /\ nodes = << >>
    /\ srcCount = 1
    /\ result = NoneRef

\* the child node c is reachable from a field of node p
Attached(ns, p, c) ==
    \E f \in DOMAIN ns[p].fields :
        \/ ns[p].fields[f] = PyRef(c)
        \/ ns[p].fields[f].t = "list" /\ \E k \in 1..Len(ns[p].fields[f].v) :
                                             ns[p].fields[f].v[k] = c

\* C5: for every registered node type and every child tag for which the type
\* has no add_ method, combine raises UnsupportedFeature(class, tag) and leaves
\* the parent as it was (for fresh nodes of every type, and for every node a
\* parse has built, with the node built last as the child); in a parse, the
\* child is then not attached and the parse has failed.
C5_NoRule ==
    /\ (\A cls \in Registry : \A tag \in LowerTags :
             Rule(cls, tag) = NoRule =>
                LET heap == << NewToken(cls), NewToken("Tile") >>
                    r == combine(heap, 1, 2, tag)
                IN /\ r.err = Exc("UnsupportedFeature", << ClassName(cls), tag >>)
                   /\ r.nodes = heap)
    /\ [](\A p \in 1..Len(nodes) : \A tag \in LowerTags :
             Rule(nodes[p].cls, tag) = NoRule =>
                LET r == combine(nodes, p, Len(nodes), tag)
                IN /\ r.err = Exc("UnsupportedFeature", << ClassName(nodes[p].cls), tag >>)
                   /\ r.nodes = nodes)
    /\ [][ ( /\ EventStep
             /\ Len(calls') = 2
             /\ calls'[2].fn = "combine"
             /\ Rule(nodes[calls'[2].self].cls, calls'[2].tag) = NoRule ) =>
               LET p == calls'[2].self
                   c == calls'[2].arg
               IN /\ pc' = "failed"
                  /\ error' = Exc("UnsupportedFeature",
                                  << ClassName(nodes[p].cls), calls'[2].tag >>)
                  /\ nodes'[p] = nodes[p]
                  /\ ~Attached(nodes', p, c) ]_vars

\* a parse ended because a map has no rule for a tile child
C5_Witness ==
    /\ pc = "failed"
    /\ error = Exc("UnsupportedFeature", << "MapToken", "tile" >>)
    /\ Len(calls) = 2
    /\ calls[2].fn = "combine"
    /\ ~Attached(nodes, calls[2].self, calls[2].arg)

\* C6: a stream that is exhausted while a started node is still open, and an
\* end event that arrives with only the sentinel on the stack, both make the
\* driver fail with an error (whatever its class), and no document is
\* reported.
C6_MalformedDocument ==
    /\ (lastEvent.kind = "exhausted" /\ Len(stack) > 1) =>
          (pc = "failed" /\ result = NoneRef)
    /\ (lastEvent.kind = "end" /\ stack = << >>) =>
          (pc = "failed" /\ result = NoneRef)


(* ---------------------------------------------------------------------- *)
(* Properties of the tile-data pipeline                                    *)
(* ---------------------------------------------------------------------- *)
\* the last step was the end event of a data node whose end() was called
DataEnded ==
    /\ lastEvent.kind = "end"
    /\ lastEvent.tag = "Data"
    /\ token # NoneRef
    /\ nodes[token].cls = "Data"
    /\ Len(calls) >= 1

\* the text is absent or only whitespace
Blank(content) == content.t = "None" \/ Strip(content.v) = << >>

\* the parent of the data node just ended declares integer width and height
DimsKnown ==
    /\ context.parent # NoneRef
    /\ "width" \in DOMAIN nodes[context.parent].attrib
    /\ "height" \in DOMAIN nodes[context.parent].attrib
    /\ nodes[context.parent].attrib["width"].t = "int"
    /\ nodes[context.parent].attrib["height"].t = "int"

DimW == nodes[context.parent].attrib["width"].v
DimH == nodes[context.parent].attrib["height"].v

\* the flat sequence ids laid out row-major in h rows of w columns
RowMajor(ids, w, h) == [i \in 1..h |-> [j \in 1..w |-> ids[(i - 1) * w + j]]]

\* the flat id sequence the data node just ended was finalized from: the ids
\* decoded from its text, or the gids of its tile children; ok is FALSE when
\* no flat sequence of integer ids was obtained
FlatIds ==
    LET self == nodes[token]
        content == lastEvent.text
        tiles == self.fields.tiles.v
        none == [ok |-> FALSE, ids |-> << >>]
        ints(vals) == IF \A k \in 1..Len(vals) : vals[k].t = "int"
                      THEN [ok |-> TRUE, ids |-> [k \in 1..Len(vals) |-> vals[k].v]]
                      ELSE none
    IN IF ~Blank(content)
       THEN LET d == unpack(content, self.attrib["encoding"], self.attrib["compression"])
                u == unroll_layer_data(d.val)
            IN IF IsErr(d.err) \/ IsErr(u.err) THEN none ELSE ints(u.val)
       ELSE IF tiles # << >> THEN ints(TileGids(nodes, tiles))
       ELSE none

\* C7: whenever the end of a data node stores a grid, the grid has exactly
\* `height` rows of exactly `width` cells each, filled row-major from the flat
\* id sequence; and when the flat id sequence does not have width*height
\* elements the end fails and stores no grid.
C7_GridShape ==
    DataEnded =>
        LET data == nodes[token].fields.data
        IN /\ data.t = "rows" =>
                /\ DimsKnown
                /\ FlatIds.ok
                /\ Len(data.v) = DimH
                /\ \A i \in 1..Len(data.v) : Len(data.v[i]) = DimW
                /\ Len(FlatIds.ids) >= DimW * DimH => data.v = RowMajor(FlatIds.ids, DimW, DimH)
           /\ (DimsKnown /\ FlatIds.ok /\ Len(FlatIds.ids) # DimW * DimH) =>
                (pc = "failed" /\ Len(calls) = 1 /\ data.t = "None")

\* the gids of the tile children of the data node just ended are all ids that
\* fit a grid cell
TileGidsUsable ==
    \A k \in 1..Len(nodes[token].fields.tiles.v) :
        LET g == nodes[nodes[token].fields.tiles.v[k]].attrib["gid"]
        IN g.t = "int" /\ g.v >= 0 /\ g.v <= 65535

\* C8: the grid of a data node comes from exactly one source, chosen at its
\* end event.  Non-blank text: the text is decoded (the outcome is that of
\* the text pipeline, whatever tile children there are).  Absent or blank text
\* and at least one tile child: the grid is the children's gids in the order
\* they were combined, reshaped row-major.  Absent or blank text and no tile
\* child: the end fails and no grid is stored.
C8_OneSource ==
    (DataEnded /\ DimsKnown) =>
        LET self == nodes[token]
            content == lastEvent.text
            tiles == self.fields.tiles.v
            data == self.fields.data
            endFailed == pc = "failed" /\ Len(calls) = 1 /\ data.t = "None"
        IN /\ ~Blank(content) =>
                LET d == unpack(content, self.attrib["encoding"], self.attrib["compression"])
                    u == unroll_layer_data(d.val)
                    r == rowify(u.val, PyInt(DimW), PyInt(DimH))
                IN IF IsErr(d.err) \/ IsErr(u.err) \/ IsErr(r.err) THEN endFailed
                   ELSE data = r.val
           /\ (Blank(content) /\ tiles # << >> /\ TileGidsUsable
                 /\ Len(tiles) = DimW * DimH) =>
                data = PyRows(RowMajor([k \in 1..Len(tiles) |->
                                           nodes[tiles[k]].attrib["gid"].v], DimW, DimH))
           /\ (Blank(content) /\ tiles = << >>) => endFailed

\* the byte buffers of length up to MaxBytes over these byte values
ByteValues == {0, 255}
RECURSIVE Buffers(_)
Buffers(n) ==
    IF n = 0 THEN { << >> }
    ELSE LET shorter == Buffers(n - 1)
         IN shorter \cup { Append(b, x) : b \in { c \in shorter : Len(c) = n - 1 },
                                          x \in ByteValues }

\* C9: when the byte buffer obtained after decoding and decompression has a
\* length that is not a multiple of 4, the end of the data node fails and
\* stores no grid; unroll_layer_data never returns the ids of the leading
\* complete 4-byte groups of such a buffer.
C9_NoTruncation ==
    /\ \A b \in Buffers(MaxBytes) :
          Len(b) % 4 # 0 => IsErr(unroll_layer_data(PyBytes(b)).err)
    /\ (DataEnded /\ ~Blank(lastEvent.text)) =>
          LET self == nodes[token]
              d == unpack(lastEvent.text, self.attrib["encoding"],
                          self.attrib["compression"])
          IN (~IsErr(d.err) /\ d.val.t = "bytes" /\ Len(d.val.v) % 4 # 0) =>
                /\ pc = "failed"
                /\ Len(calls) = 1
                /\ self.fields.data = PyNone

\* a zlib-compressed base64 payload of 6 bytes was rejected at the end of a
\* data node of a 2 x 1 layer
C9_Witness ==
    /\ DataEnded
    /\ DimsKnown
    /\ lastEvent.text = TextZlibOdd
    /\ nodes[token].attrib["encoding"] = PyStr("base64")
    /\ nodes[token].attrib["compression"] = PyStr("zlib")
    /\ unpack(lastEvent.text, nodes[token].attrib["encoding"],
              nodes[token].attrib["compression"]).val = PyBytes(<< 5, 0, 0, 0, 1, 2 >>)
    /\ pc = "failed"
    /\ error.kind = "struct.error"
    /\ nodes[token].fields.data = PyNone

Digits == << "0", "1", "2", "3", "4", "5", "6", "7", "8", "9" >>
IsDigits(tok) == tok # << >> /\ \A k \in 1..Len(tok) : \E d \in 1..10 : Digits[d] = tok[k]

\* int(tok) for a token of decimal digits: what the map object of decode_csv
\* would yield for it
RECURSIVE IntOfDigits(_)
IntOfDigits(tok) ==
    IF tok = << >> THEN 0
    ELSE 10 * IntOfDigits(SubSeq(tok, 1, Len(tok) - 1))
         + (CHOOSE d \in 0..9 : Digits[d + 1] = tok[Len(tok)])

\* C10: with encoding csv and no compression, the integers listed in the text
\* are the tile ids: neither decompression nor 32-bit unpacking is applied to
\* them, and the grid stored is those integers reshaped row-major.
C10_CsvDirect ==
    (DataEnded /\ DimsKnown /\ ~Blank(lastEvent.text)
       /\ nodes[token].attrib["encoding"] = PyStr("csv")
       /\ nodes[token].attrib["compression"] = PyNone) =>
        LET toks == decode_csv(lastEvent.text).val.v
        IN (/\ \A k \in 1..Len(toks) : IsDigits(toks[k]) /\ IntOfDigits(toks[k]) <= 65535
            /\ Len(toks) = DimW * DimH) =>
             nodes[token].fields.data =
                 PyRows(RowMajor([k \in 1..Len(toks) |-> IntOfDigits(toks[k])], DimW, DimH))

(* ---------------------------------------------------------------------- *)
(* decode_gid applied on its own                                           *)
(* ---------------------------------------------------------------------- *)
\* the raw 32-bit values decode_gid is applied to: every combination of the
\* three flag bits, with and without other bits of the top byte, over tile
\* ids at both ends of the low 24 bits
GidHighBytes == {0, 1, 31, 32, 64, 96, 128, 160, 192, 224, 255}
GidLowBits == {0, 1, 5, 65535, 16777215}
RawGids == { U32(hi, lo) : hi \in GidHighBytes, lo \in GidLowBits }

InitGid ==
    /\ SlurpInit
    /\ OneParse
    /\ applied = ""
    /\ output = PyNone
    /\ input \in RawGids

\* a call decode_gid(raw_gid); its return value is the int of `return gid`
ApplyDecodeGid ==
    /\ applied = ""
    /\ applied' = "decode_gid"
    /\ output' = PyInt(decode_gid(input))
    /\ UNCHANGED << input, slurpVars, twoVars >>

NextGid == ApplyDecodeGid

SpecGid == InitGid /\ [][NextGid]_vars

\* the raw value with bits 31, 30 and 29 cleared
ClearedId(raw) == (raw.hi % 32) * 16777216 + raw.lo

\* the triple (bit 31 set, bit 30 set, bit 29 set) of the raw value
FlagTriple(raw) ==
    << raw.hi \div 128 = 1, (raw.hi \div 64) % 2 = 1, (raw.hi \div 32) % 2 = 1 >>

\* C11: for every raw 32-bit value, decode_gid returns the pair of the id --
\* the raw value with bits 31, 30 and 29 cleared, bits 0..28 unchanged -- and
\* the flag triple whose members tell whether bit 31, bit 30 and bit 29 were
\* set; raw 0 is accepted and gives id 0.
C11_DecodeGid ==
    (applied = "decode_gid") =>
        /\ output.t = "tuple"
        /\ Len(output.v) = 2
        /\ output.v[1] = PyInt(ClearedId(input))
        /\ output.v[2] = FlagTriple(input)

(* ---------------------------------------------------------------------- *)
(* The attribute-population step applied on its own                        *)
(* ---------------------------------------------------------------------- *)
\* the text "0,0 5,0 5,5"
TextTriangle ==
    PyText(<< "0", ",", "0", " ", "5", ",", "0", " ", "5", ",", "5" >>)

\* the raw attribute mappings start is applied to: none given, only an
\* undeclared one, strings for many declared names and an undeclared one,
\* values no numeric caster accepts, values that are typed already (as a
\* structured-data source delivers them), an empty string, and the mappings
\* of property elements with and without type and value
RawMappings ==
    { EmptyMap,
      [bogus |-> PyStr("1")],
      [name |-> PyStr("n"), width |-> PyStr("2"), height |-> PyStr("1"),
       x |-> PyStr("10"), y |-> PyStr("10"), gid |-> PyStr("5"), id |-> PyStr("1"),
       visible |-> PyStr("0"), opacity |-> PyStr("1"), source |-> PyStr("a.tsx"),
       firstgid |-> PyStr("1"), encoding |-> PyStr("base64"),
       tileid |-> PyStr("3"), bogus |-> PyStr("1")],
      [width |-> PyStr("abc"), x |-> PyStr("abc"), id |-> PyStr("abc"),
       tileid |-> PyStr("abc"), firstgid |-> PyStr("abc"), offsetx |-> PyStr("abc")],
      [width |-> PyInt(2), height |-> PyInt(1), x |-> PyInt(10), y |-> PyFloat(10),
       visible |-> PyBool(FALSE), opacity |-> PyFloat(0), infinite |-> PyInt(1)],
      [visible |-> PyStr("")],
      [name |-> PyStr("hp")],
      [name |-> PyStr("hp"), value |-> PyStr("5")],
      [type |-> PyStr("int"), name |-> PyStr("hp"), value |-> PyStr("5")],
      [type |-> PyStr("int"), name |-> PyStr("hp"), value |-> PyStr("abc")],
      [type |-> PyStr("bool"), name |-> PyStr("hp"), value |-> PyStr("")],
      [type |-> PyStr("weird"), name |-> PyStr("hp"), value |-> PyStr("5")],
      [type |-> PyStr("int"), name |-> PyStr("hp")],
      [points |-> TextTriangle] }

InitStart ==
    /\ SlurpInit
    /\ OneParse
    /\ applied = ""
    /\ output = PyNone
    /\ \E cls \in Registry : \E init \in RawMappings :
          input = [cls |-> cls, init |-> init]

\* token = get_processor(cls); token.start(init, context)
ApplyStart ==
    /\ applied = ""
    /\ applied' = "start"
    /\ output' = NodeStart(get_processor(input.cls).node, input.init)
    /\ UNCHANGED << input, slurpVars, twoVars >>

NextStart == ApplyStart

SpecStart == InitStart /\ [][NextStart]_vars

\* the names, the caster and the default a schema declares
SchemaNames(schema) == { schema[i][1] : i \in 1..Len(schema) }
SchemaCaster(schema, k) == schema[CHOOSE i \in 1..Len(schema) : schema[i][1] = k][2]
SchemaDefault(schema, k) == schema[CHOOSE i \in 1..Len(schema) : schema[i][1] = k][3]

\* the raw value of attribute k if the raw mapping has it, else the default
Resolved(schema, init, k) ==
    IF k \in DOMAIN init THEN init[k] ELSE SchemaDefault(schema, k)

\* C12: after the attribute-population step of a node of any type, applied to
\* any raw mapping none of whose resolved values its caster refuses, the
\* attribute mapping has exactly the names of the type's schema as keys; the
\* value of each is None when the resolved value (raw value, else default) is
\* None, and otherwise the schema's caster applied to the resolved value.
C12_StartSchema ==
    (applied = "start") =>
        LET schema == Attributes(input.cls)
            init == input.init
            castable == \A k \in SchemaNames(schema) :
                            Resolved(schema, init, k).t # "None" =>
                                ~IsErr(Cast(SchemaCaster(schema, k),
                                            Resolved(schema, init, k)).err)
        IN castable =>
             /\ ~IsErr(output.err)
             /\ DOMAIN output.node.attrib = SchemaNames(schema)
             /\ \A k \in SchemaNames(schema) :
                   output.node.attrib[k] =
                       IF Resolved(schema, init, k).t = "None" THEN PyNone
                       ELSE Cast(SchemaCaster(schema, k), Resolved(schema, init, k)).val

(* ---------------------------------------------------------------------- *)
(* Tag resolution: the tag an event source delivers, then get_processor    *)
(* ---------------------------------------------------------------------- *)
LowerLetters ==
    << "a", "b", "c", "d", "e", "f", "g", "h", "i", "j", "k", "l", "m",
       "n", "o", "p", "q", "r", "s", "t", "u", "v", "w", "x", "y", "z" >>
UpperLetters ==
    << "A", "B", "C", "D", "E", "F", "G", "H", "I", "J", "K", "L", "M",
       "N", "O", "P", "Q", "R", "S", "T", "U", "V", "W", "X", "Y", "Z" >>

IsLetter(c) == \E i \in 1..26 : c = LowerLetters[i] \/ c = UpperLetters[i]
LetterIndex(c) == CHOOSE i \in 1..26 : c = LowerLetters[i] \/ c = UpperLetters[i]
\* c.upper() and c.lower() of one character
UpperChar(c) == IF IsLetter(c) THEN UpperLetters[LetterIndex(c)] ELSE c
LowerChar(c) == IF IsLetter(c) THEN LowerLetters[LetterIndex(c)] ELSE c

\* str.title(): a letter that follows a letter is lower-cased, every other
\* letter is upper-cased
Title(cs) ==
    [i \in 1..Len(cs) |->
        IF i > 1 /\ IsLetter(cs[i - 1]) THEN LowerChar(cs[i]) ELSE UpperChar(cs[i])]

\* the str of a sequence of characters
RECURSIVE Join(_)
Join(cs) == IF cs = << >> THEN "" ELSE Head(cs) \o Join(Tail(cs))

\* the tag of the events load_tmx yields for an element: element.tag.title()
load_tmx(elementTag) == Title(elementTag)

\* the tag of the events load_json yields for a key of the root: the key
load_json(key) == key

\* the node type a name in the source file resolves to on a start event:
\* get_processor applied to the tag the event source delivers for it
Resolve(source, name) ==
    get_processor(Join(IF source = "tmx" THEN load_tmx(name) ELSE load_json(name)))

\* every spelling of a word in upper- and lower-case letters
RECURSIVE AllCases(_)
AllCases(cs) ==
    IF cs = << >> THEN { << >> }
    ELSE { << c >> \o rest : c \in {LowerChar(Head(cs)), UpperChar(Head(cs))},
                             rest \in AllCases(Tail(cs)) }

\* the names resolved: every spelling of four registered names, four
\* spellings of a registered name with an inner capital, two of an
\* unregistered one
SourceNames ==
    AllCases(<< "m", "a", "p" >>) \cup AllCases(<< "t", "i", "l", "e" >>)
    \cup AllCases(<< "d", "a", "t", "a" >>) \cup AllCases(<< "l", "a", "y", "e", "r" >>)
    \cup { << "t", "i", "l", "e", "o", "f", "f", "s", "e", "t" >>,
           << "T", "i", "l", "e", "O", "f", "f", "s", "e", "t" >>,
           << "T", "i", "l", "e", "o", "f", "f", "s", "e", "t" >>,
           << "T", "I", "L", "E", "O", "F", "F", "S", "E", "T" >>,
           << "b", "o", "g", "u", "s" >>, << "B", "o", "g", "u", "s" >> }

InitResolve ==
    /\ SlurpInit
    /\ OneParse
    /\ applied = ""
    /\ output = PyNone
    /\ \E source \in {"tmx", "json"} : \E name \in SourceNames :
          input = [source |-> source, name |-> name]

\* the start event of an element or key with this name is dispatched
ApplyResolve ==
    /\ applied = ""
    /\ applied' = "get_processor"
    /\ output' = Resolve(input.source, input.name)
    /\ UNCHANGED << input, slurpVars, twoVars >>

NextResolve == ApplyResolve

SpecResolve == InitResolve /\ [][NextResolve]_vars

\* what a resolution came to: the node type, or "rejected"
Outcome(r) == IF IsErr(r.err) THEN "rejected" ELSE ClassName(r.node.cls)

\* the name in lower-case letters: the spelling all spellings of one name share
FoldCase(cs) == [i \in 1..Len(cs) |-> LowerChar(cs[i])]

\* C13: from either event source, a name resolves as its all-lower-case
\* spelling does -- to the same node type, or rejected like it -- so that any
\* two names that differ only in letter case resolve alike.
C13_CaseInsensitive ==
    (applied = "get_processor") =>
        Outcome(output) = Outcome(Resolve(input.source, FoldCase(input.name)))

(* ---------------------------------------------------------------------- *)
(* Map documents: tilesets, layers and object groups                       *)
(* ---------------------------------------------------------------------- *)
\* the tags of the elements of a map document, as load_tmx delivers them
MapTags ==
    { "Map", "Tileset", "Layer", "Imagelayer", "Objectgroup", "Group", "Image",
      "Tile", "Grid", "Terraintypes", "Tileoffset", "Wangsets", "Animation",
      "Object", "Ellipse", "Polygon", "Polyline", "Text" }

\* the tags an element of a map document can open below the open elements
MapChildTags(open) ==
    IF open = << >> THEN {"Map"}
    ELSE CASE open[Len(open)] = "Map" ->
                {"Tileset", "Layer", "Imagelayer", "Objectgroup", "Group"}
           [] open[Len(open)] = "Tileset" ->
                {"Image", "Tile", "Grid", "Terraintypes", "Tileoffset", "Wangsets"}
           [] open[Len(open)] = "Tile" -> {"Image", "Animation", "Objectgroup"}
           [] open[Len(open)] = "Objectgroup" -> {"Object"}
           [] open[Len(open)] = "Object" ->
                {"Ellipse", "Polygon", "Polyline", "Text", "Image"}
           [] OTHER -> { }

\* the text "2,7 0,1"
TextZigzag == PyText(<< "2", ",", "7", " ", "0", ",", "1" >>)

\* the raw attribute mappings of the elements of a map document
MapAttribs(tag) ==
    CASE tag = "Tileset" ->
           { [firstgid |-> PyStr("1"), tilewidth |-> PyStr("1"), tileheight |-> PyStr("1")],
             [firstgid |-> PyStr("1"), source |-> PyStr("a.tsx")] }
      [] tag = "Image" ->
           { [source |-> PyStr("a.png"), width |-> PyStr("2"), height |-> PyStr("1")] }
      [] tag = "Layer" -> { [width |-> PyStr("2"), height |-> PyStr("1")] }
      [] tag = "Tile" -> { [id |-> PyStr("1")] }
      [] tag = "Object" ->
           { EmptyMap,
             [x |-> PyStr("10"), y |-> PyStr("10")],
             [x |-> PyStr("3"), y |-> PyStr("-1")],
             [x |-> PyStr("10"), y |-> PyStr("10"), gid |-> PyStr("5")] }
      [] tag \in {"Polygon", "Polyline"} ->
           { [points |-> TextTriangle], [points |-> TextZigzag] }
      [] OTHER -> { EmptyMap }

NextMap ==
    \/ /\ \E tag \in MapChildTags(srcOpen) : \E attrib \in MapAttribs(tag) :
              SlurpStart(tag, attrib)
       /\ UNCHANGED << callVars, twoVars >>
    \/ /\ \E tag \in MapTags : SlurpEnd(tag, PyNone)
       /\ UNCHANGED << callVars, twoVars >>
    \/ /\ SlurpExhausted
       /\ UNCHANGED << callVars, twoVars >>

SpecMap == Init /\ [][NextMap]_vars

\* the parent/child relations the rejected list names: the parent's node
\* type and the child's tag in lower case
RejectedRelations ==
    { << "Map", "group" >>, << "Tile", "animation" >>, << "Tile", "objectgroup" >>,
      << "Tileset", "wangsets" >>, << "Tileset", "tileoffset" >>,
      << "Tileset", "grid" >>, << "Tileset", "terraintypes" >>,
      << "Object", "text" >>, << "Tile", "image" >>, << "Object", "image" >> }

\* C14: no node is ever attached to a parent with which it stands in a
\* rejected relation; and when the end event of such a child has been
\* processed, or the start event of such a child could not be dispatched, the
\* parse has failed with UnsupportedFeature.
C14_Rejected ==
    /\ \A p \in 1..Len(nodes) : \A c \in 1..Len(nodes) :
          Attached(nodes, p, c) =>
              << nodes[p].cls, Lower(nodes[c].cls) >> \notin RejectedRelations
    /\ ( /\ lastEvent.kind = "end"
         /\ token # NoneRef
         /\ context.parent # NoneRef
         /\ Len(calls) >= 1
         /\ << nodes[context.parent].cls, Lower(lastEvent.tag) >> \in RejectedRelations )
       => (pc = "failed" /\ error.kind = "UnsupportedFeature")
    /\ ( /\ lastEvent.kind = "start"
         /\ Len(calls) = 1
         /\ Top(stack) # NoneRef
         /\ << nodes[Top(stack)].cls, Lower(lastEvent.tag) >> \in RejectedRelations )
       => (pc = "failed" /\ error.kind = "UnsupportedFeature")

\* the node is a tileset whose source attribute is set
IsExternalTileset(n) ==
    nodes[n].cls = "Tileset" /\ nodes[n].attrib["source"] # PyNone

\* C15: when the end event of a tileset whose source attribute is set has
\* been processed, the parse has failed with UnsupportedFeature and the
\* tileset was not folded into its parent; no tilesets collection of a map
\* ever holds such a tileset.
C15_ExternalTileset ==
    /\ ( /\ lastEvent.kind = "end"
         /\ token # NoneRef
         /\ Len(calls) >= 1
         /\ IsExternalTileset(token) )
       => /\ pc = "failed"
          /\ error.kind = "UnsupportedFeature"
          /\ Last(log[token]) # "folded"
    /\ \A m \in 1..Len(nodes) :
          nodes[m].cls = "Map" =>
              \A k \in 1..Len(nodes[m].fields.tilesets.v) :
                  ~IsExternalTileset(nodes[m].fields.tilesets.v[k])

\* the shape descriptors an object node carries
ShapeDescriptors(n) ==
    { d \in {"ellipse", "points", "gid"} :
        \/ d = "ellipse" /\ nodes[n].fields.ellipse = PyBool(TRUE)
        \/ d = "points" /\ nodes[n].fields.points.v # << >>
        \/ d = "gid" /\ "gid" \in DOMAIN nodes[n].attrib
                     /\ nodes[n].attrib["gid"] # PyNone }

\* C16: in every state of a parse, every object node carries at most one of
\* the shape descriptors ellipse marker, non-empty point list, gid.
C16_OneShape ==
    \A n \in 1..Len(nodes) :
        nodes[n].cls = "Object" => Cardinality(ShapeDescriptors(n)) <= 1

(* ---------------------------------------------------------------------- *)
(* Two parses with interleaved steps                                       *)
(* ---------------------------------------------------------------------- *)
\* Two calls of slurp run in one process, each on its own event source; a
\* step is the processing of one event.  The variables of the driver are the
\* locals of the call that is running (`active`), `peer` holds the locals of
\* the suspended call.  Both calls construct their nodes in the one heap
\* `nodes` of the process.

\* number of events each of the two event sources delivers at most
MaxTwoEvents == 4

\* the locals of the running call of slurp
Locals ==
    [stack |-> stack, token |-> token, context |-> context, pc |-> pc,
     error |-> error, result |-> result, srcOpen |-> srcOpen,
     srcCount |-> srcCount, wellNested |-> wellNested, lastEvent |-> lastEvent,
     calls |-> calls]

\* the state of a call of slurp that runs alone: its locals and the nodes it
\* constructed
Alone(st, ns) ==
    [stack |-> st.stack, token |-> st.token, context |-> st.context,
     pc |-> st.pc, error |-> st.error, result |-> st.result, nodes |-> ns]

\* a start event processed by a call that runs alone
SoloStart(st, tag, attrib) ==
    LET p == get_processor(tag)
        id == Len(st.nodes) + 1
        s == NodeStart(p.node, attrib)
    IN IF IsErr(p.err) THEN [st EXCEPT !.pc = "failed", !.error = p.err]
       ELSE IF IsErr(s.err)
       THEN [st EXCEPT !.nodes = Append(@, s.node), !.token = id,
                       !.pc = "failed", !.error = s.err]
       ELSE [st EXCEPT !.nodes = Append(@, s.node), !.token = id,
                       !.stack = Push(@, id)]

\* an end event processed by a call that runs alone
SoloEnd(st, tag, text) ==
    LET popped == Pop(st.stack)
        tok == popped.token
        base == [st EXCEPT !.token = tok, !.stack = popped.stack]
    IN IF popped.stack = << >>
       THEN [base EXCEPT !.pc = "failed", !.error = Exc("IndexError", << >>)]
       ELSE IF tok = NoneRef
       THEN [base EXCEPT !.pc = "failed", !.error = Exc("AttributeError", << "end" >>)]
       ELSE LET parent == Top(popped.stack)
                ctx == SetParent(st.context, parent)
                e == TokenEnd(st.nodes, tok, text, ctx)
                c == combine(e.nodes, parent, tok, Lower(tag))
            IN IF IsErr(e.err)
               THEN [base EXCEPT !.context = ctx, !.nodes = e.nodes,
                                 !.pc = "failed", !.error = e.err]
               ELSE IF ~IsTrue(parent)
               THEN [base EXCEPT !.context = ctx, !.nodes = e.nodes]
               ELSE IF IsErr(c.err)
               THEN [base EXCEPT !.context = ctx, !.nodes = c.nodes,
                                 !.pc = "failed", !.error = c.err]
               ELSE [base EXCEPT !.context = ctx, !.nodes = c.nodes]

\* the end of the event source met by a call that runs alone
SoloExhausted(st) ==
    IF st.token = NoneRef
    THEN [st EXCEPT !.pc = "failed", !.error = Exc("AttributeError", << "as_object" >>)]
    ELSE [st EXCEPT !.pc = "done", !.result = st.token]

\* the tags, attribute mappings and texts of the two event sources: tile
\* layer documents
TwoAttribs(tag) ==
    CASE tag = "Layer" -> { [width |-> PyStr("2"), height |-> PyStr("1")] }
      [] tag = "Data" -> { EmptyMap, [encoding |-> PyStr("base64")] }
      [] tag = "Tile" -> { [gid |-> PyStr("5")] }

TwoTexts(tag) == IF tag = "Data" THEN { TextBlank, TextB64Two } ELSE { PyNone }

InitTwo ==
    /\ SlurpInit
    /\ NoCall
    /\ active = 1
    /\ peer = Locals
    /\ owner = << >>
    /\ solo = [p \in 1..2 |-> Alone(Locals, nodes)]

\* the nodes constructed by the step are those of the running call
Owned == owner' = owner \o [k \in 1..(Len(nodes') - Len(owner)) |-> active]

\* Resume that takes the context dict from the call that ran last
Resume_SharedContext(saved, current) == [saved EXCEPT !.context = current.context]

\* the locals a suspended call finds when it goes on: its own, as stack,
\* token and context are created inside slurp
Resume(saved, current) == saved

\* the running call is suspended and the other one goes on
Switch ==
    LET mine == Resume(peer, Locals)
    IN /\ active' = 3 - active
       /\ peer' = Locals
       /\ stack' = mine.stack
       /\ token' = mine.token
       /\ context' = mine.context
       /\ pc' = mine.pc
       /\ error' = mine.error
       /\ result' = mine.result
       /\ srcOpen' = mine.srcOpen
       /\ srcCount' = mine.srcCount
       /\ wellNested' = mine.wellNested
       /\ lastEvent' = mine.lastEvent
       /\ calls' = mine.calls
       /\ UNCHANGED << nodes, log, owner, solo, callVars >>

NextTwo ==
    \/ /\ srcCount < MaxTwoEvents
       /\ \E tag \in LayerChildTags(srcOpen) : \E attrib \in TwoAttribs(tag) :
              /\ SlurpStart(tag, attrib)
              /\ solo' = [solo EXCEPT ![active] = SoloStart(@, tag, attrib)]
       /\ Owned
       /\ UNCHANGED << active, peer, callVars >>
    \/ /\ srcCount < MaxTwoEvents
       /\ \E tag \in LayerTags : \E text \in TwoTexts(tag) :
              /\ SlurpEnd(tag, text)
              /\ solo' = [solo EXCEPT ![active] = SoloEnd(@, tag, text)]
       /\ Owned
       /\ UNCHANGED << active, peer, callVars >>
    \/ /\ SlurpExhausted
       /\ solo' = [solo EXCEPT ![active] = SoloExhausted(@)]
       /\ Owned
       /\ UNCHANGED << active, peer, callVars >>
    \/ Switch

SpecTwo == InitTwo /\ [][NextTwo]_vars

\* the position of node n among the nodes of the call that constructed it
Rank(n) ==
    IF n = NoneRef THEN NoneRef
    ELSE Cardinality({ m \in 1..n : owner[m] = owner[n] })

\* a field value with the nodes it refers to named by their rank
Ranked(v) ==
    CASE v.t = "ref" -> PyRef(Rank(v.v))
      [] v.t = "list" -> PyList([k \in 1..Len(v.v) |-> Rank(v.v[k])])
      [] OTHER -> v

\* the nodes call p constructed, in the order of their construction
OwnNodes(p) ==
    LET own == { n \in 1..Len(nodes) : owner[n] = p }
    IN [k \in 1..Cardinality(own) |->
          LET n == CHOOSE m \in own : Rank(m) = k
          IN [nodes[n] EXCEPT !.fields = [f \in DOMAIN @ |-> Ranked(@[f])]]]

\* what call p has come to, with its nodes named as if it had run alone
View(st, p) ==
    [stack |-> [i \in 1..Len(st.stack) |-> Rank(st.stack[i])],
     token |-> Rank(st.token),
     context |-> [st.context EXCEPT !.parent = Rank(@)],
     pc |-> st.pc,
     error |-> st.error,
     result |-> Rank(st.result),
     nodes |-> OwnNodes(p)]

\* C17: however the steps of two parses are interleaved, each parse is at
\* every moment where it would be had it processed its events alone -- the
\* same stack, the same nodes and graph, the same error and result -- and a
\* step of one parse leaves the locals and the nodes of the other as they
\* were.
C17_NoCrossTalk ==
    /\ [](/\ View(Locals, active) = solo[active]
          /\ View(peer, 3 - active) = solo[3 - active])
    /\ [][ active' = active =>
             /\ peer' = peer
             /\ \A n \in 1..Len(nodes) : owner[n] # active => nodes'[n] = nodes[n] ]_vars

\* both parses have come to their end, each with a grid stored in the data
\* node of its layer, and their nodes were constructed alternately
C17_Witness ==
    /\ pc = "done" /\ wellNested
    /\ peer.pc = "done" /\ peer.wellNested
    /\ Len(owner) = 4
    /\ owner[1] # owner[2]
    /\ owner[2] # owner[3]
    /\ owner[3] # owner[4]
    /\ \A n \in 1..Len(nodes) :
          nodes[n].cls = "Data" => nodes[n].fields.data = PyRows(<< << 5, 0 >> >>)

(* ---------------------------------------------------------------------- *)
(* rowify applied on its own                                               *)
(* ---------------------------------------------------------------------- *)
\* width and height of the grids rowify is applied to at most
MaxSide == 2
\* number of cells of those grids at most
MaxCells == 4

\* the tile ids of the cells: both ends of the range of a decoded id, 0 ..
\* 2^29 - 1, and both sides of the largest value an array("H") item holds
GridIds == {0, 65535, 65536, 536870911}

\* rowify(gids, w, h) is applied to every w, h and every list of w * h ids
InitRowify ==
    /\ SlurpInit
    /\ OneParse
    /\ applied = ""
    /\ output = PyNone
    /\ \E w \in 0..MaxSide : \E h \in 0..MaxSide :
          /\ w * h <= MaxCells
          /\ \E ids \in [1..(w * h) -> GridIds] :
                input = [gids |-> [k \in 1..(w * h) |-> PyInt(ids[k])],
                         w |-> PyInt(w), h |-> PyInt(h)]

ApplyRowify ==
    /\ applied = ""
    /\ applied' = "rowify"
    /\ output' = rowify(input.gids, input.w, input.h)
    /\ UNCHANGED << input, slurpVars, twoVars >>

NextRowify == ApplyRowify

SpecRowify == InitRowify /\ [][NextRowify]_vars

\* the rows of a grid one after the other
RECURSIVE Flatten(_)
Flatten(rows) == IF rows = << >> THEN << >> ELSE Head(rows) \o Flatten(Tail(rows))

\* C18: for every w, h and every list of exactly w * h ids in 0 .. 2^29 - 1,
\* rowify succeeds, gives h rows of w cells, and the rows one after the other
\* are the list it was given, every value as it was.
C18_RoundTrip ==
    (applied = "rowify") =>
        /\ ~IsErr(output.err)
        /\ Len(output.val.v) = input.h.v
        /\ \A i \in 1..Len(output.val.v) : Len(output.val.v[i]) = input.w.v
        /\ Flatten(output.val.v) = [k \in 1..Len(input.gids) |-> input.gids[k].v]

(* ---------------------------------------------------------------------- *)
(* Polygons and polylines of an object                                     *)
(* ---------------------------------------------------------------------- *)
\* the end event of a polygon or polyline has been processed whose parent is
\* an object with an origin and whose point list is a tuple of pairs
ShapeEnded ==
    /\ lastEvent.kind = "end"
    /\ lastEvent.tag \in {"Polygon", "Polyline"}
    /\ token # NoneRef
    /\ context.parent # NoneRef
    /\ Len(calls) >= 1
    /\ nodes[context.parent].cls = "Object"
    /\ nodes[context.parent].attrib["x"] # PyNone
    /\ nodes[context.parent].attrib["y"] # PyNone
    /\ nodes[token].attrib["points"].t = "points"
    /\ \A k \in 1..Len(nodes[token].attrib["points"].v) :
          Len(nodes[token].attrib["points"].v[k]) = 2

\* the points ps with (x, y) added to each, in the order of ps
Translated(ps, x, y) == [k \in 1..Len(ps) |-> << ps[k][1] + x, ps[k][2] + y >>]

\* C19: when a polygon or polyline child with point list P has been combined
\* into an object with origin (x, y), the combination succeeded, the object's
\* point list is P with (x, y) added to each point, in the order of P, and
\* the object's closed attribute is true for a polygon, false for a polyline.
C19_Translated ==
    ShapeEnded =>
        LET obj == nodes[context.parent]
            P == nodes[token].attrib["points"].v
        IN /\ pc = "running"
           /\ Len(calls) = 2
           /\ obj.fields.points =
                 PyPoints(Translated(P, obj.attrib["x"].v, obj.attrib["y"].v))
           /\ "closed" \in DOMAIN obj.attrib
           /\ obj.attrib["closed"] = PyBool(lastEvent.tag = "Polygon")

\* a polygon with the points (0,0), (5,0), (5,5) was combined into an object
\* at (10,10): the object has (10,10), (15,10), (15,15) and is closed
C19_Witness ==
    /\ ShapeEnded
    /\ lastEvent.tag = "Polygon"
    /\ nodes[token].attrib["points"] = PyPoints(<< <<0, 0>>, <<5, 0>>, <<5, 5>> >>)
    /\ nodes[context.parent].attrib["x"].v = 10
    /\ nodes[context.parent].attrib["y"].v = 10
    /\ nodes[context.parent].fields.points =
          PyPoints(<< <<10, 10>>, <<15, 10>>, <<15, 15>> >>)
    /\ nodes[context.parent].attrib["closed"] = PyBool(TRUE)

(* ---------------------------------------------------------------------- *)
(* The collections of the map node                                         *)
(* ---------------------------------------------------------------------- *)
\* the collections of a map node
MapLists == {"layers", "tilesets", "objectgroups"}

\* the collection of the map a child of the given tag belongs to, "" if none
ListFor(tag) ==
    CASE tag \in {"layer", "imagelayer"} -> "layers"
      [] tag = "tileset" -> "tilesets"
      [] tag = "objectgroup" -> "objectgroups"
      [] OTHER -> ""

\* the node types of the children a collection of the map holds
TypesOf(f) ==
    CASE f = "layers" -> {"Layer", "Imagelayer"}
      [] f = "tilesets" -> {"Tileset"}
      [] f = "objectgroups" -> {"Objectgroup"}

\* this step processed an end event and combined the ended node into node m
CombinedInto(m) ==
    /\ EventStep
    /\ lastEvent'.kind = "end"
    /\ pc' = "running"
    /\ Len(calls') = 2
    /\ calls'[2].fn = "combine"
    /\ calls'[2].self = m

\* every collection of every map node is a list of distinct nodes of its
\* types, each of them folded, in the order the nodes were declared; and
\* every folded node of these types is in the collection of the root map
ListsExact ==
    /\ \A m \in 1..Len(nodes) : nodes[m].cls = "Map" =>
          \A f \in MapLists :
             /\ nodes[m].fields[f].t = "list"
             /\ \A k \in 1..Len(nodes[m].fields[f].v) :
                   LET c == nodes[m].fields[f].v[k]
                   IN /\ c \in (m + 1)..Len(nodes)
                      /\ nodes[c].cls \in TypesOf(f)
                      /\ Last(log[c]) = "folded"
                      /\ k > 1 => nodes[m].fields[f].v[k - 1] < c
    /\ \A c \in 2..Len(nodes) :
          ( /\ nodes[1].cls = "Map"
            /\ Last(log[c]) = "folded"
            /\ ListFor(Lower(nodes[c].cls)) # "" )
          => \E k \in 1..Len(nodes[1].fields[ListFor(Lower(nodes[c].cls))].v) :
                nodes[1].fields[ListFor(Lower(nodes[c].cls))].v[k] = c

\* a step that combines a child into a map appends the child to the
\* collection of its tag and leaves the other collections as they were; any
\* other step leaves all three as they were; a map starts with all three empty
ListsAppendOnly ==
    /\ \A m \in 1..Len(nodes) : nodes[m].cls = "Map" =>
          \A f \in MapLists :
             nodes'[m].fields[f] =
                IF CombinedInto(m) /\ ListFor(calls'[2].tag) = f
                THEN PyList(Append(nodes[m].fields[f].v, calls'[2].arg))
                ELSE nodes[m].fields[f]
    /\ \A m \in (Len(nodes) + 1)..Len(nodes') : nodes'[m].cls = "Map" =>
          \A f \in MapLists : nodes'[m].fields[f] = PyList(<< >>)

\* C20: the layers collection of a map holds exactly the tile layers and
\* image layers combined into it so far, both kinds in one list in the order
\* of their end events; tilesets and objectgroups likewise hold theirs; and
\* every combination appends one element and neither reorders nor removes
\* the earlier ones.
C20_MapCollections == []ListsExact /\ [][ListsAppendOnly]_vars

\* an image layer, a tile layer and a second image layer were combined into
\* the map in this order
C20_Witness ==
    /\ Len(nodes) = 4
    /\ nodes[1].cls = "Map"
    /\ nodes[1].fields.layers = PyList(<< 2, 3, 4 >>)
    /\ nodes[2].cls = "Imagelayer"
    /\ nodes[3].cls = "Layer"
    /\ nodes[4].cls = "Imagelayer"
    /\ nodes[1].fields.objectgroups = PyList(<< >>)
    /\ nodes[1].fields.tilesets = PyList(<< >>)
    /\ \A c \in 2..4 : Last(log[c]) = "folded"
    /\ lastEvent.kind = "end"
    /\ Len(calls) = 2

(* ---------------------------------------------------------------------- *)
(* The context a start event hands to start                                *)
(* ---------------------------------------------------------------------- *)
\* a start event has been processed and start was called on the new node
StartCalled ==
    /\ lastEvent.kind = "start"
    /\ Len(calls) = 2
    /\ calls[2].fn = "start"

\* the entry that was on top of the stack when start was called: the new
\* node is pushed above it unless start raised
ParentAtStart == IF pc = "failed" THEN Top(stack) ELSE stack[Len(stack) - 1]

\* C21: whenever start has run on a start event, the parent entry of the
\* context it was handed is the entry that was on top of the stack at that
\* moment (None for the root), never a node or None left by an earlier event.
C21_ParentAtStart == StartCalled => calls[2].arg = ParentAtStart

(* ---------------------------------------------------------------------- *)
(* Documents with properties                                               *)
(* ---------------------------------------------------------------------- *)
PropsTags == {"Map", "Layer", "Objectgroup", "Object", "Properties", "Property"}

\* the tags an element of a document with properties can open below the
\* open elements
PropsChildTags(open) ==
    IF open = << >> THEN {"Map"}
    ELSE CASE open[Len(open)] = "Map" -> {"Properties", "Layer", "Objectgroup"}
           [] open[Len(open)] = "Layer" -> {"Properties"}
           [] open[Len(open)] = "Objectgroup" -> {"Object"}
           [] open[Len(open)] = "Object" -> {"Properties"}
           [] open[Len(open)] = "Properties" -> {"Property"}
           [] OTHER -> { }

\* the raw attribute mappings of the elements of such a document; a property
\* whose value is the text of the element has no value attribute
PropsAttribs(tag) ==
    CASE tag = "Layer" -> { [width |-> PyStr("2"), height |-> PyStr("1")] }
      [] tag = "Object" -> { [x |-> PyStr("10"), y |-> PyStr("10")] }
      [] tag = "Property" ->
           { [name |-> PyStr("hp"), value |-> PyStr("5")],
             [name |-> PyStr("hp"), value |-> PyStr("3")],
             [name |-> PyStr("mp"), type |-> PyStr("int"), value |-> PyStr("5")],
             [name |-> PyStr("note")] }
      [] OTHER -> { EmptyMap }

NextProps ==
    \/ /\ \E tag \in PropsChildTags(srcOpen) : \E attrib \in PropsAttribs(tag) :
              SlurpStart(tag, attrib)
       /\ UNCHANGED << callVars, twoVars >>
    \/ /\ \E tag \in PropsTags : SlurpEnd(tag, PyNone)
       /\ UNCHANGED << callVars, twoVars >>
    \/ /\ SlurpExhausted
       /\ UNCHANGED << callVars, twoVars >>

SpecProps == Init /\ [][NextProps]_vars

\* the node has been combined into its parent
Folded(n) == \E k \in 1..Len(log[n]) : log[n][k] = "folded"

\* C22: a step of the parse, whatever event it processes, leaves every node
\* that was combined into its parent before the step as it was: its type, its
\* attribute mapping, its properties mapping and its child collections and
\* other fields.
C22_FoldedFrozen ==
    [][ \A n \in 1..Len(nodes) : Folded(n) => nodes'[n] = nodes[n] ]_vars

\* a properties node with hp = 5 was combined into the map, which took the
\* mapping over; after that a layer was parsed and combined, and the
\* properties node is as it was
C22_Witness ==
    /\ Len(nodes) = 4
    /\ nodes[1].cls = "Map"
    /\ nodes[2].cls = "Properties"
    /\ Folded(2) /\ Folded(3) /\ Folded(4)
    /\ nodes[4].cls = "Layer"
    /\ nodes[2].fields.dictionary = PyDict((PyStr("hp") :> PyStr("5")))
    /\ nodes[1].properties = nodes[2].fields.dictionary
    /\ pc = "running"

(* ---------------------------------------------------------------------- *)
(* Tilesets with and without an image                                      *)
(* ---------------------------------------------------------------------- *)
\* the end event of a tileset without a source attribute has been processed
\* into which no image was combined
BareTilesetEnded ==
    /\ lastEvent.kind = "end"
    /\ token # NoneRef
    /\ Len(calls) >= 1
    /\ nodes[token].cls = "Tileset"
    /\ nodes[token].attrib["source"] = PyNone
    /\ nodes[token].fields.image = PyNone
    /\ context.parent # NoneRef
    /\ nodes[context.parent].cls = "Map"

\* this step called end on node t
EndsNow(t) ==
    /\ EventStep
    /\ lastEvent'.kind = "end"
    /\ token' = t
    /\ Len(calls') >= 1

\* when end is called on a tileset, the image it holds then was ended and
\* combined into it in an earlier step
ImageBeforeEnd ==
    \A t \in 1..Len(nodes) :
        (nodes[t].cls = "Tileset" /\ EndsNow(t) /\ nodes'[t].fields.image # PyNone) =>
            /\ nodes[t].fields.image = nodes'[t].fields.image
            /\ nodes[t].fields.image.t = "ref"
            /\ nodes[nodes[t].fields.image.v].cls = "Image"
            /\ log[nodes[t].fields.image.v] = << "start", "end", "folded" >>

\* C23: a tileset without a source attribute and without an image child is
\* finalized at its end event without error, its image left None, and is
\* appended to the tilesets of the map; and when a tileset has an image
\* child, the end of the image and its combination into the tileset come
\* before the end of the tileset.
C23_ImageOptional ==
    /\ [](BareTilesetEnded =>
             /\ pc = "running"
             /\ error = NoErr
             /\ Last(log[token]) = "folded"
             /\ \E k \in 1..Len(nodes[context.parent].fields.tilesets.v) :
                   nodes[context.parent].fields.tilesets.v[k] = token)
    /\ [][ImageBeforeEnd]_vars

(* ---------------------------------------------------------------------- *)
(* The shape of the stack                                                  *)
(* ---------------------------------------------------------------------- *)
\* the events processed so far are a prefix of those of a well-nested stream
WellNestedSoFar == wellNested \/ lastEvent.kind = "exhausted"

\* the start event of node n was processed to its end: n is not the node on
\* which start has just raised (such a node is constructed and never pushed)
Started(n) ==
    ~(pc = "failed" /\ lastEvent.kind = "start" /\ Len(calls) = 2 /\ n = Len(nodes))

\* the end event of node n was processed
Ended(n) == \E k \in 1..Len(log[n]) : log[n][k] = "end"

\* the nodes that are started and not ended
OpenNodes == { n \in 1..Len(nodes) : Started(n) /\ ~Ended(n) }

\* C24: while the events processed are those of a well-nested stream, the
\* stack is None at the bottom followed by exactly the nodes whose start
\* event was processed and whose end event was not, in the order they were
\* started; its length is 1 + the number of start events processed - the
\* number of end events processed, and None is never popped.
C24_StackShape ==
    WellNestedSoFar =>
        /\ Len(stack) >= 1
        /\ stack[1] = NoneRef
        /\ { stack[k] : k \in 2..Len(stack) } = OpenNodes
        /\ \A k \in 3..Len(stack) : stack[k - 1] < stack[k]
        /\ Len(stack) = 1 + Cardinality({ n \in 1..Len(nodes) : Started(n) })
                          - Cardinality({ n \in 1..Len(nodes) : Ended(n) })

\* three elements were ended and two are open: the stack holds None, the
\* root and the open child
C24_Witness ==
    /\ wellNested
    /\ pc = "running"
    /\ lastEvent.kind = "start"
    /\ Len(nodes) = 5
    /\ stack = << NoneRef, 1, 5 >>
    /\ Ended(2) /\ Ended(3) /\ Ended(4)

====
